---- MODULE Spec2Model ----
(***************************************************************************)
(* Geometry / fusion engine of the roof damage detection backend.          *)
(*                                                                         *)
(*   shared/cv_utils.py          calculate_overlap, merge_damage_areas,    *)
(*                               filter_large_damage_areas                 *)
(*   lambda/agent-overlay/handler.py   cross-pass reconciliation, counts,  *)
(*                               uploads and stored status                 *)
(*   shared/single_agent.py      _nms, _clip_box, location filter, roof    *)
(*                               boundary fallback, YOLO decoding          *)
(*   shared/image_utils.py       bbox_to_grid_coords                       *)
(*   lambda/agent-color/ai_client.py, shared/cache.py   AIClient           *)
(*                                                                         *)
(* Numbers.  Python floats are modelled exactly:                           *)
(*   - an IoU or a fraction is a rational <<numerator, denominator>> with  *)
(*     a positive denominator, compared by cross-multiplication;           *)
(*   - a confidence is an integer number of thousandths (0.9 is 900); the  *)
(*     50/50 blend of two of them is the rational <<conf1 + conf2, 2>>.    *)
(* A candidate is a record whose fields may be absent, as a Python dict;   *)
(* a bbox is a sequence of integers.                                       *)
(***************************************************************************)
EXTENDS Integers, Sequences, FiniteSets, TLC

VARIABLES
    pc,                    \* position of the running operation
    bbox1, bbox2, iou,     \* calculate_overlap: arguments and returned value
    primary, secondary, iou_threshold,  \* merge_damage_areas: arguments
    secondary0,            \* the secondary list as it was passed in
    merged, alias, mi,     \* merge_damage_areas: working list, object identity, loop index
    damage_areas, max_fraction, filtered_result,  \* filter_large_damage_areas
    image_width, image_height,          \* image size (filter argument / handler local)
    agent1_0, agent2_0,    \* overlay handler: the two passes' lists as stored
    agent1_damage_areas, agent2_damage_areas,     \* overlay handler locals
    overlap_areas, contrib, hi,         \* overlay handler: output, provenance, loop index
    fn, outcome, result,   \* single_agent / annotation calls: function, how it ended, returned value
    boxes, scores, nms_iou_threshold,   \* _nms: arguments
    idxs, keep,            \* _nms: locals
    box, clamp_width, clamp_height,     \* _clamp_bbox / _clip_box: arguments
    detections, img_width, img_height, roof_mask,  \* filter_detections_by_location: arguments
    decodable,             \* whether cv2.imdecode can decode image_bytes
    ai_client, updated, ci,  \* annotate_damage_with_ai: argument, locals
    responses,             \* what the annotator answered, request by request
    damage_counts,         \* overlay handler: count_damage_instances result
    overlay_uploaded, report_uploaded,  \* overlay handler: what the two uploads returned
    workflow_status,       \* overlay handler: metadata.workflow_status as stored
    grid_size,             \* bbox_to_grid_coords: argument
    contours,              \* detect_roof_boundary: areas of the contours cv2 found
    _cache, now,           \* shared/cache.py: the module's dict, time.time()
    circuit_breaker_open, circuit_breaker_failures,  \* AIClient fields
    openai_client, openrouter_key,      \* AIClient fields: whether they are set
    calls,                 \* AIClient.detect_content: what the last call did, in order
    ratio, dwdh,           \* run_yolo_inference: what _letterbox returned
    filter_by_roof         \* run_yolo_inference: argument

vars == <<pc, bbox1, bbox2, iou, primary, secondary, iou_threshold, secondary0,
          merged, alias, mi, damage_areas, max_fraction, filtered_result,
          image_width, image_height, agent1_0, agent2_0,
          agent1_damage_areas, agent2_damage_areas, overlap_areas, contrib, hi,
          fn, outcome, result, boxes, scores, nms_iou_threshold, idxs, keep,
          box, clamp_width, clamp_height, detections, img_width, img_height, roof_mask,
          decodable, ai_client, updated, ci, responses,
          damage_counts, overlay_uploaded, report_uploaded, workflow_status,
          grid_size, contours, _cache, now, circuit_breaker_open,
          circuit_breaker_failures, openai_client, openrouter_key, calls, ratio, dwdh,
          filter_by_roof>>

overlapVars == <<bbox1, bbox2, iou>>
mergeVars == <<primary, secondary, iou_threshold, secondary0, merged, alias, mi>>
filterVars == <<damage_areas, max_fraction, filtered_result>>
imageVars == <<image_width, image_height>>
handlerVars == <<agent1_0, agent2_0, agent1_damage_areas, agent2_damage_areas,
                 overlap_areas, contrib, hi>>
callVars == <<fn, outcome, result>>
nmsVars == <<boxes, scores, nms_iou_threshold, idxs, keep>>
clampVars == <<box, clamp_width, clamp_height>>
locationVars == <<detections, img_width, img_height, roof_mask>>
annotateVars == <<ai_client, updated, ci, responses>>
reportVars == <<damage_counts, overlay_uploaded, report_uploaded, workflow_status>>
clientVars == <<_cache, now, circuit_breaker_open, circuit_breaker_failures,
                openai_client, openrouter_key, calls>>
yoloVars == <<ratio, dwdh, filter_by_roof>>
serviceVars == <<reportVars, grid_size, contours, clientVars, yoloVars>>
singleVars == <<callVars, nmsVars, clampVars, locationVars, decodable, annotateVars,
                serviceVars>>

----------------------------------------------------------------------------
(* Bounds of the model *)

\* coordinates of the boxes enumerated for calculate_overlap: 0..MaxCoord
MaxCoord == 2
\* longest primary list given to merge_damage_areas
MaxPrimary == 1
\* longest secondary list given to merge_damage_areas
MaxSecondary == 2
\* longest candidate list given to filter_large_damage_areas
MaxAreas == 3
\* longest damage_areas list of each pass in the overlay handler
MaxAgentAreas == 2

----------------------------------------------------------------------------
(* Python values *)

\* dict.get(key, default)
Get(d, key, default) == IF key \in DOMAIN d THEN d[key] ELSE default

\* dict.update(other), {**d, **other}: other's fields win, d's other fields stay
Update(d, other) ==
    [k \in (DOMAIN d) \cup (DOMAIN other) |-> IF k \in DOMAIN other THEN other[k] ELSE d[k]]

Max(a, b) == IF a >= b THEN a ELSE b
Min(a, b) == IF a <= b THEN a ELSE b

\* float comparisons on rationals <<n, d>>, d > 0
RatGT(a, b) == a[1] * b[2] > b[1] * a[2]
RatGE(a, b) == a[1] * b[2] >= b[1] * a[2]
RatEQ(a, b) == a[1] * b[2] = b[1] * a[2]
Zero == <<0, 1>>
One == <<1, 1>>

\* all sequences over S of length at most n
SeqsUpTo(S, n) == UNION {[1..k -> S] : k \in 0..n}

----------------------------------------------------------------------------
(* cv_utils.calculate_overlap *)

\* the slip this guards against: the early return taken only when the
\* intersection is empty on both axes
calculate_overlap_BothAxes(b1, b2) ==
    LET x1_i == Max(b1[1], b2[1])
        y1_i == Max(b1[2], b2[2])
        x2_i == Min(b1[3], b2[3])
        y2_i == Min(b1[4], b2[4])
        intersection == (x2_i - x1_i) * (y2_i - y1_i)
        area1 == (b1[3] - b1[1]) * (b1[4] - b1[2])
        area2 == (b2[3] - b2[1]) * (b2[4] - b2[2])
        union == area1 + area2 - intersection
    IN  IF x2_i <= x1_i /\ y2_i <= y1_i THEN Zero
        ELSE IF union = 0 THEN Zero
        ELSE IF union < 0 THEN <<-intersection, -union>>
        ELSE <<intersection, union>>

\* the slip this guards against: the union taken as the sum of the two areas,
\* the intersection not subtracted
calculate_overlap_UnionIsSum(b1, b2) ==
    LET x1_i == Max(b1[1], b2[1])
        y1_i == Max(b1[2], b2[2])
        x2_i == Min(b1[3], b2[3])
        y2_i == Min(b1[4], b2[4])
        intersection == (x2_i - x1_i) * (y2_i - y1_i)
        area1 == (b1[3] - b1[1]) * (b1[4] - b1[2])
        area2 == (b2[3] - b2[1]) * (b2[4] - b2[2])
        union == area1 + area2
    IN  IF x2_i <= x1_i \/ y2_i <= y1_i THEN Zero
        ELSE IF union = 0 THEN Zero
        ELSE <<intersection, union>>

\* IoU of two 4-element boxes, the float intersection / union as the rational
\* <<intersection, union>>; 0.0 is <<0, 1>>
calculate_overlap(b1, b2) ==
    LET x1_i == Max(b1[1], b2[1])
        y1_i == Max(b1[2], b2[2])
        x2_i == Min(b1[3], b2[3])
        y2_i == Min(b1[4], b2[4])
        intersection == (x2_i - x1_i) * (y2_i - y1_i)
        area1 == (b1[3] - b1[1]) * (b1[4] - b1[2])
        area2 == (b2[3] - b2[1]) * (b2[4] - b2[2])
        union == area1 + area2 - intersection
    IN  IF x2_i <= x1_i \/ y2_i <= y1_i THEN Zero
        ELSE IF union = 0 THEN Zero
        ELSE <<intersection, union>>

----------------------------------------------------------------------------
(* Idle values of the variables an operation does not use *)

IdleOverlap == bbox1 = <<>> /\ bbox2 = <<>> /\ iou = Zero
IdleMerge ==
    /\ primary = <<>> /\ secondary = <<>> /\ secondary0 = <<>>
    /\ iou_threshold = Zero /\ merged = <<>> /\ alias = <<>> /\ mi = 0
IdleFilter == damage_areas = <<>> /\ max_fraction = Zero /\ filtered_result = <<>>
IdleImage == image_width = 0 /\ image_height = 0
IdleHandler ==
    /\ agent1_0 = <<>> /\ agent2_0 = <<>>
    /\ agent1_damage_areas = <<>> /\ agent2_damage_areas = <<>>
    /\ overlap_areas = <<>> /\ contrib = <<>> /\ hi = 0
IdleCall == fn = "" /\ outcome = "" /\ result = <<>>
IdleNms ==
    boxes = <<>> /\ scores = <<>> /\ nms_iou_threshold = Zero /\ idxs = <<>> /\ keep = <<>>
IdleClamp == box = <<>> /\ clamp_width = 0 /\ clamp_height = 0
IdleLocation == detections = <<>> /\ img_width = 0 /\ img_height = 0 /\ roof_mask = <<>>
IdleDecode == decodable = TRUE
IdleAnnotate == ai_client = FALSE /\ updated = <<>> /\ ci = 0 /\ responses = <<>>
IdleReport ==
    /\ damage_counts = <<>> /\ overlay_uploaded = FALSE /\ report_uploaded = FALSE
    /\ workflow_status = ""
IdleGrid == grid_size = 0
IdleRoof == contours = <<>>
IdleClient ==
    /\ _cache = <<>> /\ now = 0 /\ circuit_breaker_open = FALSE
    /\ circuit_breaker_failures = 0 /\ openai_client = FALSE /\ openrouter_key = FALSE
    /\ calls = <<>>
IdleYolo == ratio = One /\ dwdh = <<0, 0>> /\ filter_by_roof = FALSE
IdleService == IdleReport /\ IdleGrid /\ IdleRoof /\ IdleClient /\ IdleYolo
IdleSingle ==
    /\ IdleCall /\ IdleNms /\ IdleClamp /\ IdleLocation /\ IdleDecode /\ IdleAnnotate
    /\ IdleService

----------------------------------------------------------------------------
(* Specification SpecOverlap: one call of calculate_overlap on every pair   *)
(* of integer boxes with coordinates in 0..MaxCoord (degenerate and         *)
(* inverted boxes included: bboxes of AI-provided candidates are not        *)
(* validated before they reach this function).                              *)

Coords == 0..MaxCoord
Boxes == {<<x1, y1, x2, y2>> : x1 \in Coords, y1 \in Coords, x2 \in Coords, y2 \in Coords}

InitOverlap ==
    /\ pc = "overlap_call"
    /\ bbox1 \in Boxes
    /\ bbox2 \in Boxes
    /\ iou = Zero
    /\ IdleMerge /\ IdleFilter /\ IdleImage /\ IdleHandler /\ IdleSingle

CallOverlap ==
    /\ pc = "overlap_call"
    /\ iou' = calculate_overlap(bbox1, bbox2)
    /\ pc' = "overlap_done"
    /\ UNCHANGED <<bbox1, bbox2, mergeVars, filterVars, imageVars, handlerVars, singleVars>>

NextOverlap == CallOverlap

SpecOverlap == InitOverlap /\ [][NextOverlap]_vars

\* the rectangles of a and b have an empty intersection on the x or the y axis
Disjoint(a, b) ==
    \/ Min(a[3], b[3]) <= Max(a[1], b[1])
    \/ Min(a[4], b[4]) <= Max(a[2], b[2])

\* area of the union of two boxes of non-negative width and height
UnionArea(a, b) ==
    LET ix == Max(0, Min(a[3], b[3]) - Max(a[1], b[1]))
        iy == Max(0, Min(a[4], b[4]) - Max(a[2], b[2]))
    IN  (a[3] - a[1]) * (a[4] - a[2]) + (b[3] - b[1]) * (b[4] - b[2]) - ix * iy

WellFormed(b) == b[3] >= b[1] /\ b[4] >= b[2]
PositiveArea(b) == b[3] > b[1] /\ b[4] > b[2]

\* C4 as stated: calculate_overlap(a, a) returns 1.0 for every bounding box a.
C4_SelfOverlapIsOne_Original ==
    (pc = "overlap_done" /\ bbox1 = bbox2) => RatEQ(iou, One)

\* C4 amended: calculate_overlap(a, a) returns 1.0 for every box a of positive
\* width and height, and 0.0 for every box whose width or height is not
\* positive.
C4_SelfOverlap ==
    (pc = "overlap_done" /\ bbox1 = bbox2) =>
        /\ PositiveArea(bbox1) => iou[1] = iou[2]
        /\ ~PositiveArea(bbox1) => iou = Zero

C4_Witness ==
    pc = "overlap_done" /\ bbox1 = bbox2 /\ PositiveArea(bbox1) /\ iou[1] = iou[2]

\* C5: calculate_overlap returns 0.0 for every pair of boxes whose rectangles
\* do not overlap (empty intersection on either axis, touching edges and
\* corners included), and whenever the union area is zero.
C5_DisjointIsZero ==
    pc = "overlap_done" =>
        /\ Disjoint(bbox1, bbox2) => iou = Zero
        /\ (WellFormed(bbox1) /\ WellFormed(bbox2) /\ UnionArea(bbox1, bbox2) = 0)
              => iou = Zero

\* two boxes of positive area that touch only at a corner
C5_Witness ==
    /\ pc = "overlap_done"
    /\ PositiveArea(bbox1) /\ PositiveArea(bbox2)
    /\ bbox1[3] = bbox2[1] /\ bbox1[4] = bbox2[2]
    /\ iou = Zero

----------------------------------------------------------------------------
(* cv_utils.merge_damage_areas *)

\* `bbox = c.get("bbox")` passes `not bbox or len(bbox) != 4`; the same test
\* as `len(c.get("bbox", [])) != 4` for an absent or a sequence bbox
HasBBox(c) == "bbox" \in DOMAIN c /\ Len(c["bbox"]) = 4

\* the inner loop over the working list from entry k on: the first entry of
\* strictly greatest IoU with bbox, 0 (None) while no IoU exceeds 0.0
RECURSIVE BestMatchFrom(_, _, _, _, _)
BestMatchFrom(m, bbox, k, best_match, best_iou) ==
    IF k > Len(m) THEN [match |-> best_match, iou |-> best_iou]
    ELSE IF ~HasBBox(m[k]) THEN BestMatchFrom(m, bbox, k + 1, best_match, best_iou)
    ELSE LET i == calculate_overlap(m[k]["bbox"], bbox)
         IN  IF RatGT(i, best_iou)
             THEN BestMatchFrom(m, bbox, k + 1, k, i)
             ELSE BestMatchFrom(m, bbox, k + 1, best_match, best_iou)

\* the slip this guards against: the threshold test left out, any overlapping
\* entry taken as the match
merge_step_NoThreshold(m, al, candidate, j, t) ==
    IF ~HasBBox(candidate) THEN [merged |-> m, alias |-> al]
    ELSE LET b == BestMatchFrom(m, candidate["bbox"], 1, 0, Zero)
         IN  IF b.match # 0
             THEN IF Get(candidate, "confidence", 0) > Get(m[b.match], "confidence", 0)
                  THEN [merged |-> [m EXCEPT ![b.match] = Update(m[b.match], candidate)],
                        alias |-> al]
                  ELSE [merged |-> m, alias |-> al]
             ELSE [merged |-> Append(m, candidate), alias |-> Append(al, j)]

\* the slip this guards against: "replace the loser" written as a removal of
\* the matched entry, the winning candidate never added
merge_step_RemoveLoser(m, al, candidate, j, t) ==
    IF ~HasBBox(candidate) THEN [merged |-> m, alias |-> al]
    ELSE LET b == BestMatchFrom(m, candidate["bbox"], 1, 0, Zero)
             Drop(q) == [k \in 1..(Len(q) - 1) |-> IF k < b.match THEN q[k] ELSE q[k + 1]]
         IN  IF b.match # 0 /\ RatGE(b.iou, t)
             THEN IF Get(candidate, "confidence", 0) > Get(m[b.match], "confidence", 0)
                  THEN [merged |-> Drop(m), alias |-> Drop(al)]
                  ELSE [merged |-> m, alias |-> al]
             ELSE [merged |-> Append(m, candidate), alias |-> Append(al, j)]

\* the slip this guards against: the overwrite taken on equal confidence too
merge_step_OverwriteOnTie(m, al, candidate, j, t) ==
    IF ~HasBBox(candidate) THEN [merged |-> m, alias |-> al]
    ELSE LET b == BestMatchFrom(m, candidate["bbox"], 1, 0, Zero)
         IN  IF b.match # 0 /\ RatGE(b.iou, t)
             THEN IF Get(candidate, "confidence", 0) >= Get(m[b.match], "confidence", 0)
                  THEN [merged |-> [m EXCEPT ![b.match] = Update(m[b.match], candidate)],
                        alias |-> al]
                  ELSE [merged |-> m, alias |-> al]
             ELSE [merged |-> Append(m, candidate), alias |-> Append(al, j)]

\* one iteration of `for candidate in secondary`, candidate being the j-th
\* element of secondary: the working list m afterwards, and for each of its
\* entries the secondary element it is the very same dict as (0: a dict of its
\* own, a copy of a primary element)
merge_step(m, al, candidate, j, t) ==
    IF ~HasBBox(candidate) THEN [merged |-> m, alias |-> al]
    ELSE LET b == BestMatchFrom(m, candidate["bbox"], 1, 0, Zero)
         IN  IF b.match # 0 /\ RatGE(b.iou, t)
             THEN IF Get(candidate, "confidence", 0) > Get(m[b.match], "confidence", 0)
                  THEN [merged |-> [m EXCEPT ![b.match] = Update(m[b.match], candidate)],
                        alias |-> al]
                  ELSE [merged |-> m, alias |-> al]
             ELSE [merged |-> Append(m, candidate), alias |-> Append(al, j)]

----------------------------------------------------------------------------
(* Specification SpecMerge: one call of merge_damage_areas, one step per    *)
(* secondary candidate.                                                     *)

\* candidates as the detectors and the external annotator produce them
\* (the annotator's are not validated: fields may be absent, boxes degenerate)
CrackA == [bbox |-> <<10, 10, 50, 50>>, confidence |-> 900, damage_type |-> "crack"]
StainB == [bbox |-> <<12, 12, 48, 48>>, confidence |-> 600, damage_type |-> "stain"]
\* IoU with CrackA exactly 0.3, the same confidence as CrackA
Strip == [bbox |-> <<10, 10, 50, 22>>, confidence |-> 900, damage_type |-> "impact",
          severity |-> "severe"]
\* the box of CrackA, no confidence and no damage_type
Bare == [bbox |-> <<10, 10, 50, 50>>, source |-> "cv_missing_shingles"]
NoBBox == [confidence |-> 800, damage_type |-> "crack"]
ShortBBox == [bbox |-> <<10, 10, 50>>, confidence |-> 700, damage_type |-> "stain"]
\* a 4-element box of zero width
Flat == [bbox |-> <<20, 20, 20, 40>>, confidence |-> 600, damage_type |-> "stain"]

MergePool == {CrackA, StainB, Strip, Bare, NoBBox, ShortBBox, Flat}

\* 0.0, the callers' 0.3 (single_agent.py) and the default 0.4
Thresholds == {<<0, 100>>, <<30, 100>>, <<40, 100>>}

InitMerge ==
    /\ pc = "merge_call"
    /\ primary \in SeqsUpTo(MergePool, MaxPrimary)
    /\ secondary0 \in SeqsUpTo(MergePool, MaxSecondary)
    /\ secondary = secondary0
    /\ iou_threshold \in Thresholds
    /\ merged = <<>> /\ alias = <<>> /\ mi = 0
    /\ IdleOverlap /\ IdleFilter /\ IdleImage /\ IdleHandler /\ IdleSingle

\* merged = [dict(area) for area in primary]
MergeCopy ==
    /\ pc = "merge_call"
    /\ merged' = primary
    /\ alias' = [k \in 1..Len(primary) |-> 0]
    /\ mi' = 1
    /\ pc' = IF Len(secondary) = 0 THEN "merge_done" ELSE "merge_loop"
    /\ UNCHANGED <<primary, secondary, secondary0, iou_threshold,
                   overlapVars, filterVars, imageVars, handlerVars, singleVars>>

\* one iteration of the loop; an update of a working-list entry that is a
\* secondary element (appended earlier) is an update of that element
MergeLoop ==
    /\ pc = "merge_loop"
    /\ LET r == merge_step(merged, alias, secondary[mi], mi, iou_threshold)
       IN  /\ merged' = r.merged
           /\ alias' = r.alias
           /\ secondary' = [j \in 1..Len(secondary) |->
                  IF \E k \in 1..Len(r.alias) : r.alias[k] = j
                  THEN r.merged[CHOOSE k \in 1..Len(r.alias) : r.alias[k] = j]
                  ELSE secondary[j]]
    /\ mi' = mi + 1
    /\ pc' = IF mi = Len(secondary) THEN "merge_done" ELSE "merge_loop"
    /\ UNCHANGED <<primary, secondary0, iou_threshold,
                   overlapVars, filterVars, imageVars, handlerVars, singleVars>>

NextMerge == MergeCopy \/ MergeLoop

SpecMerge == InitMerge /\ [][NextMerge]_vars

\* no two candidates of the list s, both with a 4-element bbox, have an IoU
\* that is positive and at least t
NoPairAtThreshold(s, t) ==
    \A i \in 1..Len(s) : \A j \in 1..Len(s) :
        (i < j /\ HasBBox(s[i]) /\ HasBBox(s[j])) =>
            LET v == calculate_overlap(s[i]["bbox"], s[j]["bbox"])
            IN  ~(RatGT(v, Zero) /\ RatGE(v, t))

\* C2 as stated: merge([], secondary, t) = secondary and merge(primary, [], t)
\* = primary, for every list and threshold.
C2_EmptyIdentity_Original ==
    pc = "merge_done" =>
        /\ primary = <<>> => merged = secondary0
        /\ secondary0 = <<>> => merged = primary

\* C2 amended: merge(primary, [], t) = primary for every primary and t;
\* merge([], secondary, t) = secondary whenever every candidate of secondary
\* has a 4-element bbox and no two of them have a positive IoU >= t (and then
\* secondary itself is left as it was).
C2_EmptyIdentity ==
    pc = "merge_done" =>
        /\ secondary0 = <<>> => merged = primary
        /\ (/\ primary = <<>>
            /\ \A j \in 1..Len(secondary0) : HasBBox(secondary0[j])
            /\ NoPairAtThreshold(secondary0, iou_threshold))
              => (merged = secondary0 /\ secondary = secondary0)

\* two overlapping secondary candidates (IoU 0.3 < 0.4) both returned
C2_Witness ==
    /\ pc = "merge_done" /\ primary = <<>>
    /\ secondary0 = <<CrackA, Strip>> /\ iou_threshold = <<40, 100>>
    /\ merged = secondary0

\* C9: the returned list has at least len(primary) and at most
\* len(primary) + len(secondary) entries.
C9_MergeLength ==
    pc = "merge_done" =>
        /\ Len(merged) >= Len(primary)
        /\ Len(merged) <= Len(primary) + Len(secondary0)

\* a call in which one secondary candidate was merged into an entry and
\* another was appended
C9_Witness ==
    /\ pc = "merge_done"
    /\ Len(primary) > 0 /\ Len(secondary0) = 2
    /\ Len(merged) = Len(primary) + 1
    /\ \E k \in 1..Len(primary) : merged[k] # primary[k]

\* what C8 as stated prescribes for the working list m and the secondary
\* candidate c: the entry of highest IoU is the match when that IoU >= t, it
\* is overwritten only on strictly greater confidence, and with no entry
\* reaching t the candidate is appended (a candidate without a 4-element bbox
\* has an IoU with no entry)
C8_Prescribed_Original(m, c, t) ==
    LET K == IF HasBBox(c) THEN {k \in 1..Len(m) : HasBBox(m[k])} ELSE {}
        I(k) == calculate_overlap(m[k]["bbox"], c["bbox"])
        top == {k \in K : \A l \in K : RatGE(I(k), I(l))}
        first == CHOOSE k \in top : \A l \in top : k <= l
    IN  IF top # {} /\ RatGE(I(first), t)
        THEN IF Get(c, "confidence", 0) > Get(m[first], "confidence", 0)
             THEN [m EXCEPT ![first] = Update(m[first], c)]
             ELSE m
        ELSE Append(m, c)

\* C8 as stated.
C8_MergeStep_Original ==
    [][pc = "merge_loop" =>
         merged' = C8_Prescribed_Original(merged, secondary[mi], iou_threshold)]_vars

\* the amended prescription: a candidate without a 4-element bbox is skipped,
\* and the match must overlap the candidate (IoU > 0) besides reaching t
C8_Prescribed(m, c, t) ==
    IF ~HasBBox(c) THEN m
    ELSE LET K == {k \in 1..Len(m) : HasBBox(m[k])}
             I(k) == calculate_overlap(m[k]["bbox"], c["bbox"])
             top == {k \in K : \A l \in K : RatGE(I(k), I(l))}
             first == CHOOSE k \in top : \A l \in top : k <= l
         IN  IF top # {} /\ RatGT(I(first), Zero) /\ RatGE(I(first), t)
             THEN IF Get(c, "confidence", 0) > Get(m[first], "confidence", 0)
                  THEN [m EXCEPT ![first] = Update(m[first], c)]
                  ELSE m
             ELSE Append(m, c)

\* C8 amended: for each secondary candidate with a 4-element bbox, taken in
\* order, the first working-list entry of highest IoU is its match when that
\* IoU is positive and >= iou_threshold; the match is overwritten with the
\* candidate's fields only if the candidate's confidence is strictly greater,
\* otherwise it is left unchanged and the candidate is discarded; with no
\* such match the candidate is appended. A candidate without a 4-element
\* bbox is skipped.
C8_MergeStep ==
    [][pc = "merge_loop" =>
         merged' = C8_Prescribed(merged, secondary[mi], iou_threshold)]_vars

\* a call that overwrote a primary entry with a secondary candidate of equal
\* box and higher confidence, and one that left it on equal confidence
C8_Witness ==
    /\ pc = "merge_done"
    /\ \/ primary = <<StainB>> /\ secondary0 = <<CrackA, CrackA>>
          /\ iou_threshold = <<40, 100>> /\ merged = <<CrackA>>
       \/ primary = <<Bare>> /\ secondary0 = <<CrackA, StainB>>
          /\ merged = <<Update(Bare, CrackA)>>

----------------------------------------------------------------------------
(* cv_utils.filter_large_damage_areas *)

\* bbox_area: max(0, x2 - x1) * max(0, y2 - y1)
BBoxArea(b) == Max(0, b[3] - b[1]) * Max(0, b[4] - b[2])

\* the slip this guards against: the fall-back to the original list left out
filter_large_damage_areas_NoFallback(areas, width, height, maxf) ==
    IF width <= 0 \/ height <= 0 THEN areas
    ELSE LET image_area == width * height
             Kept(area) ==
                 /\ HasBBox(area)
                 /\ ~(Len(areas) > 1 /\ BBoxArea(area["bbox"]) * maxf[2] > maxf[1] * image_area)
         IN  SelectSeq(areas, Kept)

\* the slip this guards against: a candidate of exactly max_fraction dropped
\* (>= for >)
filter_large_damage_areas_DropAtLimit(areas, width, height, maxf) ==
    IF width <= 0 \/ height <= 0 THEN areas
    ELSE LET image_area == width * height
             Kept(area) ==
                 /\ HasBBox(area)
                 /\ ~(Len(areas) > 1 /\ BBoxArea(area["bbox"]) * maxf[2] >= maxf[1] * image_area)
             filtered == SelectSeq(areas, Kept)
         IN  IF filtered # <<>> THEN filtered ELSE areas

\* maxf is max_fraction as a rational; fraction > max_fraction is
\* bbox_area / image_area > maxf[1] / maxf[2], image_area being positive
filter_large_damage_areas(areas, width, height, maxf) ==
    IF width <= 0 \/ height <= 0 THEN areas
    ELSE LET image_area == width * height
             Kept(area) ==
                 /\ HasBBox(area)
                 /\ ~(Len(areas) > 1 /\ BBoxArea(area["bbox"]) * maxf[2] > maxf[1] * image_area)
             filtered == SelectSeq(areas, Kept)
         IN  IF filtered # <<>> THEN filtered ELSE areas

----------------------------------------------------------------------------
(* Specification SpecFilter: one call of filter_large_damage_areas.         *)

\* 60% of a 100x100 image
Big60 == [bbox |-> <<0, 0, 100, 60>>, confidence |-> 701, damage_type |-> "stain"]
\* exactly 45% of a 100x100 image
Half45 == [bbox |-> <<0, 0, 45, 100>>, confidence |-> 800, damage_type |-> "discoloration"]
\* corners swapped: width and height negative
Inverted == [bbox |-> <<50, 50, 10, 10>>, confidence |-> 500]

FilterPool == {CrackA, Big60, Half45, NoBBox, Inverted}

\* <<width, height>>; a zero and a negative dimension take the early return
ImageSizes == {<<100, 100>>, <<50, 50>>, <<0, 100>>, <<100, -1>>}

\* the default 0.45, and the extremes 0.0 and 1.0
MaxFractions == {<<45, 100>>, <<0, 100>>, <<100, 100>>}

InitFilter ==
    /\ pc = "filter_call"
    /\ damage_areas \in SeqsUpTo(FilterPool, MaxAreas)
    /\ \E size \in ImageSizes : image_width = size[1] /\ image_height = size[2]
    /\ max_fraction \in MaxFractions
    /\ filtered_result = <<>>
    /\ IdleOverlap /\ IdleMerge /\ IdleHandler /\ IdleSingle

CallFilter ==
    /\ pc = "filter_call"
    /\ filtered_result' =
           filter_large_damage_areas(damage_areas, image_width, image_height, max_fraction)
    /\ pc' = "filter_done"
    /\ UNCHANGED <<damage_areas, max_fraction, imageVars,
                   overlapVars, mergeVars, handlerVars, singleVars>>

NextFilter == CallFilter

SpecFilter == InitFilter /\ [][NextFilter]_vars

\* C6: filter_large_damage_areas never returns an empty list when it is given
\* a non-empty list, whatever the image dimensions and max_fraction.
C6_FilterNeverEmpties ==
    (pc = "filter_done" /\ damage_areas # <<>>) => filtered_result # <<>>

\* every candidate is oversized or malformed and the original list comes back
C6_Witness ==
    /\ pc = "filter_done"
    /\ damage_areas = <<Big60, NoBBox>>
    /\ image_width = 100 /\ image_height = 100 /\ max_fraction = <<45, 100>>
    /\ filtered_result = damage_areas

\* the candidates of s, in order, that have a 4-element bbox whose area is at
\* most maxf of the width x height image
WithinFraction(s, width, height, maxf) ==
    LET Small(c) == HasBBox(c) /\
                    BBoxArea(c["bbox"]) * maxf[2] <= maxf[1] * (width * height)
    IN  SelectSeq(s, Small)

\* C7: on an image of positive size, more than one candidate: the result is
\* the candidates with a valid bbox of area at most max_fraction of the image
\* area, in input order, or the original list when there is none; a single
\* candidate: the result is that candidate. (60% box: removed beside a smaller
\* candidate, kept alone.)
C7_FilterResult ==
    (pc = "filter_done" /\ image_width > 0 /\ image_height > 0) =>
        /\ Len(damage_areas) > 1 =>
              LET w == WithinFraction(damage_areas, image_width, image_height, max_fraction)
              IN  filtered_result = IF w # <<>> THEN w ELSE damage_areas
        /\ Len(damage_areas) = 1 => filtered_result = damage_areas
        /\ (damage_areas = <<Big60, CrackA>> /\ image_width = 100 /\ image_height = 100
              /\ max_fraction = <<45, 100>>) => filtered_result = <<CrackA>>
        /\ (damage_areas = <<Big60>> /\ image_width = 100 /\ image_height = 100
              /\ max_fraction = <<45, 100>>) => filtered_result = <<Big60>>

\* the 60% box removed beside a box of exactly 45% and a smaller one, both kept
C7_Witness ==
    /\ pc = "filter_done"
    /\ damage_areas = <<Big60, Half45, CrackA>>
    /\ image_width = 100 /\ image_height = 100 /\ max_fraction = <<45, 100>>
    /\ filtered_result = <<Half45, CrackA>>

----------------------------------------------------------------------------
(* agent-overlay handler: cross-pass reconciliation (Phase 1)               *)

\* overlap_threshold = 0.3
overlap_threshold == <<30, 100>>

\* max_fraction default of filter_large_damage_areas, as the handler calls it
default_max_fraction == <<45, 100>>

\* (conf1 * 0.5) + (conf2 * 0.5): a rational number of thousandths
MergedConfidence(conf1, conf2) == <<conf1 + conf2, 2>>

\* the inner loop over agent2_damage_areas from element k on: the first
\* element of strictly greatest IoU among those with IoU above the threshold
\* (0: best_overlap is None)
RECURSIVE BestOverlapFrom(_, _, _, _, _)
BestOverlapFrom(b1, areas2, k, best_overlap, best_iou) ==
    IF k > Len(areas2) THEN [match |-> best_overlap, iou |-> best_iou]
    ELSE IF ~HasBBox(areas2[k]) THEN BestOverlapFrom(b1, areas2, k + 1, best_overlap, best_iou)
    ELSE LET i == calculate_overlap(b1, areas2[k]["bbox"])
         IN  IF RatGT(i, best_iou) /\ RatGT(i, overlap_threshold)
             THEN BestOverlapFrom(b1, areas2, k + 1, k, i)
             ELSE BestOverlapFrom(b1, areas2, k + 1, best_overlap, best_iou)

\* the slip this guards against: damage_type and severity taken from the side
\* of lower confidence (<= for >=)
MergedArea_LowerWins(area1, area2, best_iou) ==
    LET conf1 == Get(area1, "confidence", 500)
        conf2 == Get(area2, "confidence", 500)
    IN  [bbox |-> area1["bbox"],
         grid_coords |-> Get(area1, "grid_coords", <<>>),
         confidence |-> MergedConfidence(conf1, conf2),
         damage_type |-> IF conf1 <= conf2
                         THEN Get(area1, "damage_type", Get(area2, "damage_type", "unknown"))
                         ELSE Get(area2, "damage_type", Get(area1, "damage_type", "unknown")),
         severity |-> IF conf1 <= conf2
                      THEN Get(area1, "severity", Get(area2, "severity", "moderate"))
                      ELSE Get(area2, "severity", Get(area1, "severity", "moderate")),
         agent1_confidence |-> conf1,
         agent2_confidence |-> conf2,
         overlap_score |-> best_iou]

\* the record built for area1 and its best_overlap area2 with IoU best_iou
MergedArea(area1, area2, best_iou) ==
    LET conf1 == Get(area1, "confidence", 500)
        conf2 == Get(area2, "confidence", 500)
    IN  [bbox |-> area1["bbox"],
         grid_coords |-> Get(area1, "grid_coords", <<>>),
         confidence |-> MergedConfidence(conf1, conf2),
         damage_type |-> IF conf1 >= conf2
                         THEN Get(area1, "damage_type", Get(area2, "damage_type", "unknown"))
                         ELSE Get(area2, "damage_type", Get(area1, "damage_type", "unknown")),
         severity |-> IF conf1 >= conf2
                      THEN Get(area1, "severity", Get(area2, "severity", "moderate"))
                      ELSE Get(area2, "severity", Get(area1, "severity", "moderate")),
         agent1_confidence |-> conf1,
         agent2_confidence |-> conf2,
         overlap_score |-> best_iou]

\* one iteration of `for area1 in agent1_damage_areas`: the records appended
\* to overlap_areas (none for an area1 without a 4-element bbox) and the
\* index of the agent-2 area merged into it (0: none)
reconcile_agent1(area1, areas2) ==
    IF ~HasBBox(area1) THEN [out |-> <<>>, b |-> 0]
    ELSE LET best == BestOverlapFrom(area1["bbox"], areas2, 1, 0, Zero)
         IN  IF best.match # 0
             THEN [out |-> <<MergedArea(area1, areas2[best.match], best.iou)>>,
                   b |-> best.match]
             ELSE [out |-> <<Update(area1,
                                    [agent1_confidence |-> Get(area1, "confidence", 500),
                                     agent2_confidence |-> 0,
                                     overlap_score |-> Zero])>>,
                   b |-> 0]

\* the slip this guards against: the confidences of an agent-2 record written
\* as for an agent-1 record
SingleAgent2_NotReversed(area2) ==
    Update(area2, [agent1_confidence |-> Get(area2, "confidence", 500),
                   agent2_confidence |-> 0,
                   overlap_score |-> Zero])

\* the agent-2 record as appended when unmatched
SingleAgent2(area2) ==
    Update(area2, [agent1_confidence |-> 0,
                   agent2_confidence |-> Get(area2, "confidence", 500),
                   overlap_score |-> Zero])

\* the slip this guards against: the append placed inside the inner loop, one
\* record per agent-1 area that area2 does not overlap
RECURSIVE reconcile_agent2_AppendInLoop(_, _)
reconcile_agent2_AppendInLoop(area2, areas1) ==
    IF ~HasBBox(area2) \/ areas1 = <<>> THEN <<>>
    ELSE LET rest == reconcile_agent2_AppendInLoop(area2, Tail(areas1))
         IN  IF HasBBox(Head(areas1)) /\
                RatGT(calculate_overlap(Head(areas1)["bbox"], area2["bbox"]), overlap_threshold)
             THEN rest
             ELSE <<SingleAgent2(area2)>> \o rest

\* one iteration of `for area2 in agent2_damage_areas`: the records appended
\* to overlap_areas
reconcile_agent2(area2, areas1) ==
    IF ~HasBBox(area2) THEN <<>>
    ELSE LET has_overlap ==
                 \E k \in 1..Len(areas1) :
                     /\ HasBBox(areas1[k])
                     /\ RatGT(calculate_overlap(areas1[k]["bbox"], area2["bbox"]),
                              overlap_threshold)
         IN  IF has_overlap THEN <<>> ELSE <<SingleAgent2(area2)>>

----------------------------------------------------------------------------
(* Specification SpecHandler: one run of the overlay handler on the two     *)
(* passes' stored damage_areas, up to the end of Phase 1.                   *)

\* a detection around CrackA (IoU 0.37) of the same confidence that carries a
\* severity; its IoU with StainB is exactly 0.3 (1296 / 4320)
Patch == [bbox |-> <<0, 0, 60, 72>>, confidence |-> 900, damage_type |-> "impact",
          severity |-> "minor"]

HandlerPool == {CrackA, StainB, Bare, Big60, NoBBox, Patch}

\* img.size of the downloaded photo
HandlerImageSizes == {<<100, 100>>}

InitHandler ==
    /\ pc = "h_filter_inputs"
    /\ agent1_0 \in SeqsUpTo(HandlerPool, MaxAgentAreas)
    /\ agent2_0 \in SeqsUpTo(HandlerPool, MaxAgentAreas)
    /\ agent1_damage_areas = agent1_0
    /\ agent2_damage_areas = agent2_0
    /\ \E size \in HandlerImageSizes : image_width = size[1] /\ image_height = size[2]
    /\ overlap_areas = <<>> /\ contrib = <<>> /\ hi = 0
    /\ damage_counts = <<>> /\ overlay_uploaded = FALSE /\ report_uploaded = FALSE
    /\ workflow_status = "processing"
    /\ IdleOverlap /\ IdleMerge /\ IdleFilter
    /\ IdleCall /\ IdleNms /\ IdleClamp /\ IdleLocation /\ IdleDecode /\ IdleAnnotate
    /\ IdleGrid /\ IdleRoof /\ IdleClient /\ IdleYolo

\* position after the agent-1 loop has handled element i - 1
AfterAgent1(i, n1, n2) ==
    IF i <= n1 THEN "h_agent1" ELSE IF n2 > 0 THEN "h_agent2" ELSE "h_reconciled"

\* lines 93-94: both lists through filter_large_damage_areas
HandlerFilterInputs ==
    /\ pc = "h_filter_inputs"
    /\ LET a1 == filter_large_damage_areas(agent1_damage_areas, image_width, image_height,
                                           default_max_fraction)
           a2 == filter_large_damage_areas(agent2_damage_areas, image_width, image_height,
                                           default_max_fraction)
       IN  /\ agent1_damage_areas' = a1
           /\ agent2_damage_areas' = a2
           /\ pc' = AfterAgent1(1, Len(a1), Len(a2))
    /\ hi' = 1
    /\ UNCHANGED <<agent1_0, agent2_0, overlap_areas, contrib, imageVars,
                   overlapVars, mergeVars, filterVars, singleVars>>

\* lines 100-151, one agent-1 area
HandlerAgent1 ==
    /\ pc = "h_agent1"
    /\ LET r == reconcile_agent1(agent1_damage_areas[hi], agent2_damage_areas)
       IN  /\ overlap_areas' = overlap_areas \o r.out
           /\ contrib' = contrib \o [k \in 1..Len(r.out) |-> [a |-> hi, b |-> r.b]]
    /\ pc' = AfterAgent1(hi + 1, Len(agent1_damage_areas), Len(agent2_damage_areas))
    /\ hi' = IF hi + 1 <= Len(agent1_damage_areas) THEN hi + 1 ELSE 1
    /\ UNCHANGED <<agent1_0, agent2_0, agent1_damage_areas, agent2_damage_areas, imageVars,
                   overlapVars, mergeVars, filterVars, singleVars>>

\* lines 154-175, one agent-2 area
HandlerAgent2 ==
    /\ pc = "h_agent2"
    /\ LET out == reconcile_agent2(agent2_damage_areas[hi], agent1_damage_areas)
       IN  /\ overlap_areas' = overlap_areas \o out
           /\ contrib' = contrib \o [k \in 1..Len(out) |-> [a |-> 0, b |-> hi]]
    /\ pc' = IF hi + 1 <= Len(agent2_damage_areas) THEN "h_agent2" ELSE "h_reconciled"
    /\ hi' = hi + 1
    /\ UNCHANGED <<agent1_0, agent2_0, agent1_damage_areas, agent2_damage_areas, imageVars,
                   overlapVars, mergeVars, filterVars, singleVars>>

\* cv_utils.count_damage_instances, lines 646-660

\* counts[key] = value on a dict: a function from the keys present
SetCount(counts, key, value) ==
    [k \in (DOMAIN counts) \cup {key} |-> IF k = key THEN value ELSE counts[k]]

\* the loop of lines 656-658 from element i on
RECURSIVE CountFrom(_, _, _)
CountFrom(counts, areas, i) ==
    IF i > Len(areas) THEN counts
    ELSE LET damage_type == Get(areas[i], "damage_type", "unknown")
         IN  CountFrom(SetCount(counts, damage_type, Get(counts, damage_type, 0) + 1),
                       areas, i + 1)

\* the slip this guards against: a type recorded as present, not counted
count_damage_instances_Presence(areas) ==
    [t \in {Get(areas[i], "damage_type", "unknown") : i \in 1..Len(areas)} |-> 1]

\* the dict of counts per damage_type; <<>> is the empty dict
count_damage_instances(areas) == CountFrom(<<>>, areas, 1)

\* a record built at lines 132-141: the only ones whose overlap_score is not 0.0
IsMerged(area) == RatGT(Get(area, "overlap_score", Zero), Zero)

\* area.get('confidence', 0) of a record of overlap_areas, as a rational number
\* of thousandths: the blend of a merged record, the detection's own
\* confidence of any other
ConfidenceOf(area) ==
    IF IsMerged(area) THEN area["confidence"] ELSE <<Get(area, "confidence", 0), 1>>

\* the pairs of thousandths whose blend is 0.7 exactly and whose float blend
\* (conf1 * 0.5) + (conf2 * 0.5) is 0.7000000000000001, one unit in the last
\* place above the float 0.7
BlendRoundsAbove70(conf1, conf2) ==
    conf1 + conf2 = 1400 /\ Min(conf1, conf2) \in 463..468

\* line 213: area.get('confidence', 0) > 0.7
high_confidence(area) ==
    \/ RatGT(ConfidenceOf(area), <<700, 1>>)
    \/ /\ IsMerged(area)
       /\ BlendRoundsAbove70(area["agent1_confidence"], area["agent2_confidence"])

\* lines 215-219
damage_summary(areas) ==
    [total_damage_areas |-> Len(areas),
     high_confidence_areas |-> Len(SelectSeq(areas, high_confidence)),
     recommended_action |-> IF Len(areas) > 0 THEN "repair" ELSE "none"]

\* what generate_overlay and the overlay upload can do: the upload succeeds,
\* upload_file_to_s3 returns False (a ClientError), or an exception reaches
\* the handler
OverlayEvents == {"uploaded", "upload_failed", "raised"}

\* what json.dumps and the report upload can do: the same three
ReportEvents == {"uploaded", "upload_failed", "raised"}

\* whether a write of metadata.workflow_status reaches the table: put_metadata
\* returns False on any error and its result is not read (lines 256, 279);
\* get_metadata returns None on any error (line 275)
StatusWrites == BOOLEAN

\* lines 177-209: the counts, the second filter_large_damage_areas, the overlay
\* and its upload; on an exception lines 267-283 store the status 'failed'
\* if they can
HandlerOverlay ==
    /\ pc = "h_reconciled"
    /\ damage_counts' = count_damage_instances(overlap_areas)
    /\ overlap_areas' = filter_large_damage_areas(overlap_areas, image_width, image_height,
                                                   default_max_fraction)
    /\ \E ev \in OverlayEvents, stored \in StatusWrites :
          /\ overlay_uploaded' = (ev = "uploaded")
          /\ pc' = IF ev = "uploaded" THEN "h_report" ELSE "h_done"
          /\ outcome' = IF ev = "uploaded" THEN outcome
                        ELSE IF ev = "upload_failed" THEN "statusCode 500" ELSE "raised"
          /\ workflow_status' = IF ev = "raised" /\ stored THEN "failed" ELSE workflow_status
    /\ UNCHANGED <<agent1_0, agent2_0, agent1_damage_areas, agent2_damage_areas, contrib, hi,
                   fn, result, report_uploaded, imageVars, overlapVars, mergeVars, filterVars,
                   nmsVars, clampVars, locationVars, decodable, annotateVars,
                   grid_size, contours, clientVars, yoloVars>>

\* lines 211-265: the report, its upload, the stored status and the returned
\* agent3_results; on an exception lines 267-283 store the status 'failed' if
\* they can
HandlerReport ==
    /\ pc = "h_report"
    /\ \E ev \in ReportEvents, stored \in StatusWrites :
          LET upload_success == (ev = "uploaded")
          IN  /\ report_uploaded' = upload_success
              /\ result' = IF ev = "raised" THEN result
                            ELSE [report_s3_key |-> upload_success,
                                  overlap_areas |-> overlap_areas,
                                  damage_counts |-> damage_counts,
                                  damage_summary |-> damage_summary(overlap_areas)]
              /\ workflow_status' = IF ~stored THEN workflow_status
                                     ELSE IF ev = "raised" THEN "failed" ELSE "completed"
              /\ outcome' = IF ev = "raised" THEN "raised" ELSE "returned"
    /\ pc' = "h_done"
    /\ UNCHANGED <<handlerVars, fn, damage_counts, overlay_uploaded,
                   imageVars, overlapVars, mergeVars, filterVars,
                   nmsVars, clampVars, locationVars, decodable, annotateVars,
                   grid_size, contours, clientVars, yoloVars>>

NextHandler ==
    HandlerFilterInputs \/ HandlerAgent1 \/ HandlerAgent2 \/ HandlerOverlay \/ HandlerReport

SpecHandler == InitHandler /\ [][NextHandler]_vars

\* the output records that input i of pass A (resp. B) went into
RecordsOfA(i) == {k \in 1..Len(contrib) : contrib[k].a = i}
RecordsOfB(j) == {k \in 1..Len(contrib) : contrib[k].b = j}

\* C1: after the reconciliation of A and B (the lists the loops run over),
\* every detection of A and every detection of B is represented by exactly one
\* output record, merged or singly attributed.
\* (Stated for lists whose detections all carry a 4-element bbox.)
C1_ExactlyOnce ==
    (/\ pc = "h_reconciled"
     /\ \A i \in 1..Len(agent1_damage_areas) : HasBBox(agent1_damage_areas[i])
     /\ \A j \in 1..Len(agent2_damage_areas) : HasBBox(agent2_damage_areas[j])) =>
        /\ \A i \in 1..Len(agent1_damage_areas) : Cardinality(RecordsOfA(i)) = 1
        /\ \A j \in 1..Len(agent2_damage_areas) : Cardinality(RecordsOfB(j)) = 1

\* C10: the reconciliation never produces more than len(A) + len(B) records.
C10_ReconcileLength ==
    Len(overlap_areas) <= Len(agent1_damage_areas) + Len(agent2_damage_areas)

\* a finished reconciliation with one merged pair and unmatched areas of both
\* passes
C10_Witness ==
    /\ pc = "h_reconciled"
    /\ Len(agent1_damage_areas) = 2 /\ Len(agent2_damage_areas) = 2
    /\ Len(overlap_areas) = 3
    /\ \E k \in 1..Len(contrib) : contrib[k].a # 0 /\ contrib[k].b # 0

\* |x - 0.83| < 0.005: x is 0.83 to two decimals
IsAbout083(x) ==
    LET dev == 1000 * x[1] - 830 * x[2]
    IN  (IF dev >= 0 THEN dev ELSE -dev) < 5 * x[2]

C3_Scenario == pc = "h_reconciled" /\ agent1_0 = <<CrackA>> /\ agent2_0 = <<StainB>>

\* C3 as stated: A = [crack 0.9 at [10,10,50,50]], B = [stain 0.6 at
\* [12,12,48,48]] give exactly one record, damage_type "crack", confidence
\* 0.75, overlap_score about 0.83.
C3_Scenario_Original ==
    C3_Scenario =>
        /\ Len(overlap_areas) = 1
        /\ overlap_areas[1]["damage_type"] = "crack"
        /\ RatEQ(overlap_areas[1]["confidence"], <<750, 1>>)
        /\ IsAbout083(overlap_areas[1]["overlap_score"])

\* C3 amended: the same scenario gives exactly one record, a merged one with
\* damage_type "crack", confidence 0.75 and overlap_score 0.81 (1296 / 1600).
C3_ScenarioResult ==
    C3_Scenario =>
        /\ Len(overlap_areas) = 1
        /\ overlap_areas[1]["damage_type"] = "crack"
        /\ RatEQ(overlap_areas[1]["confidence"], <<750, 1>>)
        /\ overlap_areas[1]["agent1_confidence"] = 900
        /\ overlap_areas[1]["agent2_confidence"] = 600
        /\ overlap_areas[1]["overlap_score"][1] * 100 = 81 * overlap_areas[1]["overlap_score"][2]

C3_Witness == C3_Scenario /\ Len(overlap_areas) = 1 /\ contrib = <<[a |-> 1, b |-> 1]>>

\* the IoU of detection i of A with detection j of B
PairIoU(i, j) ==
    calculate_overlap(agent1_damage_areas[i]["bbox"], agent2_damage_areas[j]["bbox"])

\* the detections of B (resp. A) that carry a 4-element bbox
ValidB == {j \in 1..Len(agent2_damage_areas) : HasBBox(agent2_damage_areas[j])}
ValidA == {i \in 1..Len(agent1_damage_areas) : HasBBox(agent1_damage_areas[i])}

\* the first detection of B of greatest IoU with detection i of A (0: B has
\* no detection with a bbox)
BestB(i) ==
    IF ValidB = {} THEN 0
    ELSE LET v == [j \in ValidB |-> PairIoU(i, j)]
         IN  CHOOSE j \in ValidB :
                 \A k \in ValidB : RatGT(v[j], v[k]) \/ (RatEQ(v[j], v[k]) /\ j <= k)

\* detection i of A has a best-IoU detection of B strictly above the threshold
MatchedA(i) ==
    /\ i \in ValidA
    /\ LET bb == BestB(i)
       IN  bb # 0 /\ RatGT(PairIoU(i, bb), overlap_threshold)

\* the side a merged record takes its labels from: A unless B is strictly
\* more confident
Winner(a, b) == IF Get(a, "confidence", 500) >= Get(b, "confidence", 500) THEN a ELSE b
Loser(a, b) == IF Get(a, "confidence", 500) >= Get(b, "confidence", 500) THEN b ELSE a

\* what C11 says of every merged record but its labels
MergedNumbers(rec, a, b, v) ==
    /\ rec["bbox"] = a["bbox"]
    /\ RatEQ(rec["confidence"], <<Get(a, "confidence", 500) + Get(b, "confidence", 500), 2>>)
    /\ rec["agent1_confidence"] = Get(a, "confidence", 500)
    /\ rec["agent2_confidence"] = Get(b, "confidence", 500)
    /\ RatEQ(rec["overlap_score"], v)

\* C11 as stated: a matched detection of A has a record whose confidence is
\* the average, whose damage_type and severity are those of the side of higher
\* confidence (A on a tie; the documented default where that side has none),
\* and which records both confidences and the IoU.
C11_MergedRecord_Original ==
    pc = "h_reconciled" =>
        \A i \in 1..Len(agent1_damage_areas) : MatchedA(i) =>
            LET bb == BestB(i)
                a == agent1_damage_areas[i]
                b == agent2_damage_areas[bb]
                v == PairIoU(i, bb)
            IN  \E k \in RecordsOfA(i) :
                    /\ contrib[k].b = bb
                    /\ MergedNumbers(overlap_areas[k], a, b, v)
                    /\ overlap_areas[k]["damage_type"] = Get(Winner(a, b), "damage_type", "unknown")
                    /\ overlap_areas[k]["severity"] = Get(Winner(a, b), "severity", "moderate")

\* C11 amended: as stated, except that a label the side of higher confidence
\* does not carry is taken from the other side, and is "unknown" (damage_type)
\* or "moderate" (severity) only when neither side carries it; a detection
\* without a confidence counts with 0.5.
C11_MergedRecord ==
    pc = "h_reconciled" =>
        \A i \in 1..Len(agent1_damage_areas) : MatchedA(i) =>
            LET bb == BestB(i)
                a == agent1_damage_areas[i]
                b == agent2_damage_areas[bb]
                v == PairIoU(i, bb)
            IN  \E k \in RecordsOfA(i) :
                    /\ contrib[k].b = bb
                    /\ MergedNumbers(overlap_areas[k], a, b, v)
                    /\ overlap_areas[k]["damage_type"] =
                           Get(Winner(a, b), "damage_type", Get(Loser(a, b), "damage_type", "unknown"))
                    /\ overlap_areas[k]["severity"] =
                           Get(Winner(a, b), "severity", Get(Loser(a, b), "severity", "moderate"))

\* a finished reconciliation of a crack (0.9, no severity) with an equally
\* confident overlapping impact of minor severity: merged, labelled from A,
\* severity from B
C11_Witness ==
    /\ pc = "h_reconciled"
    /\ agent1_damage_areas = <<CrackA>> /\ agent2_damage_areas = <<Patch>>
    /\ MatchedA(1) /\ contrib = <<[a |-> 1, b |-> 1]>>
    /\ overlap_areas[1]["damage_type"] = "crack"
    /\ overlap_areas[1]["severity"] = "minor"
    /\ RatEQ(overlap_areas[1]["confidence"], <<900, 1>>)

\* detection j of B overlaps some detection of A above the threshold
OverlapsA(j) ==
    \E i \in ValidA : RatGT(PairIoU(i, j), overlap_threshold)

\* a detection with the three reconciliation fields set
Attributed(area, c1, c2) ==
    Update(area, [agent1_confidence |-> c1, agent2_confidence |-> c2, overlap_score |-> Zero])

\* C12: an unmatched detection of A is output with its own fields,
\* agent1_confidence its confidence and agent2_confidence 0; a detection of B
\* that overlaps no detection of A above the threshold is output with its own
\* fields, agent1_confidence 0 and agent2_confidence its confidence, after
\* all records of A; both with overlap_score 0, and a detection of B that
\* does overlap one is not output on its own.
\* (Stated for detections that carry a 4-element bbox; a detection without a
\* confidence counts with 0.5.)
C12_SingleRecords ==
    pc = "h_reconciled" =>
        /\ \A i \in ValidA : ~MatchedA(i) =>
               \E k \in RecordsOfA(i) :
                   /\ contrib[k].b = 0
                   /\ overlap_areas[k] =
                          Attributed(agent1_damage_areas[i],
                                     Get(agent1_damage_areas[i], "confidence", 500), 0)
        /\ \A j \in ValidB :
               LET own == {k \in RecordsOfB(j) : contrib[k].a = 0}
               IN  IF OverlapsA(j) THEN own = {}
                   ELSE /\ Cardinality(own) = 1
                        /\ \A k \in own :
                               /\ overlap_areas[k] =
                                      Attributed(agent2_damage_areas[j], 0,
                                                 Get(agent2_damage_areas[j], "confidence", 500))
                               /\ \A m \in 1..Len(contrib) : contrib[m].a # 0 => m < k

\* a finished reconciliation with an unmatched detection of each pass: their
\* IoU is exactly the threshold
C12_Witness ==
    /\ pc = "h_reconciled"
    /\ agent1_damage_areas = <<StainB>> /\ agent2_damage_areas = <<Patch>>
    /\ RatEQ(PairIoU(1, 1), overlap_threshold)
    /\ overlap_areas = <<Attributed(StainB, 600, 0), Attributed(Patch, 0, 900)>>

----------------------------------------------------------------------------
(* single_agent._nms: non-max suppression over the detector's boxes.        *)
(* Boxes are 1-based here: index k stands for Python's index k - 1.         *)

\* the most boxes handed to _nms
MaxBoxes == 3

\* ious of _nms for one pair: inter / np.clip(union, a_min=1e-5), the areas
\* taken without max(0, .) as the code takes them
NmsIoU(b1, b2) ==
    LET w == Max(0, Min(b1[3], b2[3]) - Max(b1[1], b2[1]))
        h == Max(0, Min(b1[4], b2[4]) - Max(b1[2], b2[2]))
        inter == w * h
        union == (b1[3] - b1[1]) * (b1[4] - b1[2]) + (b2[3] - b2[1]) * (b2[4] - b2[2]) - inter
    IN  IF union <= 0 THEN <<inter * 100000, 1>> ELSE <<inter, union>>

\* the permutations of 1..n
Perms(n) == {p \in [1..n -> 1..n] : \A a, b \in 1..n : p[a] = p[b] => a = b}

\* the slip this guards against: the [::-1] left out, lowest score first
argsort_reversed_Ascending(sc) ==
    {p \in Perms(Len(sc)) : \A k \in 1..(Len(sc) - 1) : sc[p[k]] <= sc[p[k + 1]]}

\* scores.argsort()[::-1]: the indices by descending score.  numpy's default
\* sort is not stable, so equal scores may come out in either order.
argsort_reversed(sc) ==
    {p \in Perms(Len(sc)) : \A k \in 1..(Len(sc) - 1) : sc[p[k]] >= sc[p[k + 1]]}

\* rest[ious <= iou_threshold]
Survivors(bs, current, rest, t) ==
    SelectSeq(rest, LAMBDA r : RatGE(t, NmsIoU(bs[current], bs[r])))

Box10 == <<0, 0, 10, 10>>
\* IoU 0.9 with Box10
Box9 == <<0, 0, 10, 9>>
\* IoU 0.45 with Box10, 0.5 with Box9
Box45 == <<0, 0, 9, 5>>
\* disjoint from the others
BoxFar == <<20, 20, 30, 30>>
\* x2 < x1: negative area
BoxInv == <<8, 0, 2, 6>>

NmsBoxes == {Box10, Box9, Box45, BoxFar, BoxInv}
NmsScores == {800, 950}
NmsThresholds == {<<45, 100>>, <<95, 100>>}

InitNms ==
    /\ pc = "nms_sort"
    /\ fn = "_nms" /\ outcome = "" /\ result = <<>>
    /\ boxes \in SeqsUpTo(NmsBoxes, MaxBoxes)
    /\ scores \in [1..Len(boxes) -> NmsScores]
    /\ nms_iou_threshold \in NmsThresholds
    /\ idxs = <<>> /\ keep = <<>>
    /\ IdleOverlap /\ IdleMerge /\ IdleFilter /\ IdleImage /\ IdleHandler
    /\ IdleClamp /\ IdleLocation /\ IdleDecode /\ IdleAnnotate /\ IdleService

\* line 239
NmsSort ==
    /\ pc = "nms_sort"
    /\ idxs' \in argsort_reversed(scores)
    /\ pc' = IF Len(boxes) = 0 THEN "nms_done" ELSE "nms_loop"
    /\ outcome' = IF Len(boxes) = 0 THEN "returned" ELSE outcome
    /\ UNCHANGED <<fn, result, boxes, scores, nms_iou_threshold, keep, clampVars, locationVars,
                   decodable, annotateVars, overlapVars, mergeVars, filterVars, imageVars,
                   handlerVars, serviceVars>>

\* lines 242-262: one iteration of the while loop
NmsLoop ==
    /\ pc = "nms_loop"
    /\ LET current == idxs[1]
           rest == Tail(idxs)
           left == IF Len(idxs) = 1 THEN idxs
                   ELSE Survivors(boxes, current, rest, nms_iou_threshold)
           done == Len(idxs) = 1 \/ left = <<>>
       IN  /\ keep' = Append(keep, current)
           /\ idxs' = left
           /\ pc' = IF done THEN "nms_done" ELSE "nms_loop"
           /\ outcome' = IF done THEN "returned" ELSE outcome
           /\ result' = IF done THEN Append(keep, current) ELSE result
    /\ UNCHANGED <<fn, boxes, scores, nms_iou_threshold, clampVars, locationVars,
                   decodable, annotateVars, overlapVars, mergeVars, filterVars, imageVars,
                   handlerVars, serviceVars>>

NextNms == NmsSort \/ NmsLoop

SpecNms == InitNms /\ [][NextNms]_vars

\* the boxes _nms returned
Kept == {keep[k] : k \in 1..Len(keep)}

\* C13: _nms keeps a box of the highest score; each box it drops has IoU
\* above iou_threshold with a kept box that scores at least as high; no two
\* kept boxes have IoU above the threshold; and boxes of IoU 0.9 with scores
\* 0.8 and 0.95 at threshold 0.45 leave only the 0.95 box.
C13_Nms ==
    pc = "nms_done" =>
        /\ Len(boxes) > 0 =>
               /\ Len(keep) > 0
               /\ \A i \in 1..Len(boxes) : scores[keep[1]] >= scores[i]
        /\ \A a, b \in 1..Len(keep) : a # b =>
               /\ keep[a] # keep[b]
               /\ RatGE(nms_iou_threshold, NmsIoU(boxes[keep[a]], boxes[keep[b]]))
        /\ \A i \in (1..Len(boxes)) \ Kept :
               \E k \in Kept : /\ scores[k] >= scores[i]
                               /\ RatGT(NmsIoU(boxes[k], boxes[i]), nms_iou_threshold)
        /\ (boxes = <<Box10, Box9>> /\ scores = <<800, 950>>
                /\ nms_iou_threshold = <<45, 100>>) => keep = <<2>>

\* the scenario of C13, finished
C13_Witness ==
    /\ pc = "nms_done"
    /\ boxes = <<Box10, Box9>> /\ scores = <<800, 950>> /\ nms_iou_threshold = <<45, 100>>
    /\ RatEQ(NmsIoU(Box10, Box9), <<9, 10>>)
    /\ keep = <<2>>

\* C14: of two boxes of equal score with IoU above the threshold, the later
\* one in input order is never kept in place of the earlier one (it is kept
\* only if a kept box of higher score suppressed the earlier one).
C14_TieKeepsFirst ==
    pc = "nms_done" =>
        \A i, j \in 1..Len(boxes) :
            (/\ i < j
             /\ scores[i] = scores[j]
             /\ RatGT(NmsIoU(boxes[i], boxes[j]), nms_iou_threshold)
             /\ j \in Kept) =>
                \E k \in Kept : /\ scores[k] > scores[i]
                                /\ RatGT(NmsIoU(boxes[k], boxes[i]), nms_iou_threshold)

----------------------------------------------------------------------------
(* Clamping a box to the image: cv_utils._clamp_bbox (integer contour       *)
(* rectangles) and single_agent._clip_box (the detector's float boxes).     *)
(* The variable box holds each coordinate as a count of halves, so that     *)
(* _clip_box's int() has something to truncate.                             *)

\* the largest image width and height enumerated
MaxDim == 2

\* Python's int(x) of the float h / 2: truncation toward zero
IntOfHalves(h) == IF h >= 0 THEN h \div 2 ELSE -((-h) \div 2)

\* _clamp_bbox(bbox, width, height)
_clamp_bbox(bbox, w, h) ==
    LET x1 == Max(0, Min(w - 1, bbox[1]))
        y1 == Max(0, Min(h - 1, bbox[2]))
        x2 == Max(0, Min(w, bbox[3]))
        y2 == Max(0, Min(h, bbox[4]))
    IN  <<x1, y1, IF x2 <= x1 THEN x1 + 1 ELSE x2, IF y2 <= y1 THEN y1 + 1 ELSE y2>>

\* the slip this guards against: the near corner clamped to width and height
\* instead of width - 1 and height - 1
_clip_box_NearCornerToEdge(b, w, h) ==
    LET x1 == Max(0, Min(w, IntOfHalves(b[1])))
        y1 == Max(0, Min(h, IntOfHalves(b[2])))
        x2 == Max(0, Min(w, IntOfHalves(b[3])))
        y2 == Max(0, Min(h, IntOfHalves(b[4])))
    IN  <<x1, y1, IF x2 <= x1 THEN Min(w, x1 + 1) ELSE x2,
                  IF y2 <= y1 THEN Min(h, y1 + 1) ELSE y2>>

\* _clip_box(box, width, height), box in halves
_clip_box(b, w, h) ==
    LET x1 == Max(0, Min(w - 1, IntOfHalves(b[1])))
        y1 == Max(0, Min(h - 1, IntOfHalves(b[2])))
        x2 == Max(0, Min(w, IntOfHalves(b[3])))
        y2 == Max(0, Min(h, IntOfHalves(b[4])))
    IN  <<x1, y1, IF x2 <= x1 THEN Min(w, x1 + 1) ELSE x2,
                  IF y2 <= y1 THEN Min(h, y1 + 1) ELSE y2>>

\* coordinates from one below the image to one beyond it, in halves
HalfCoords == (-2)..(2 * MaxDim + 2)
ClampDims == 1..MaxDim

InitClamp ==
    /\ pc = "clamp_call"
    /\ fn \in {"_clamp_bbox", "_clip_box"}
    /\ box \in [1..4 -> HalfCoords]
    /\ fn = "_clamp_bbox" => \A k \in 1..4 : box[k] % 2 = 0
    /\ clamp_width \in ClampDims /\ clamp_height \in ClampDims
    /\ outcome = "" /\ result = <<>>
    /\ IdleOverlap /\ IdleMerge /\ IdleFilter /\ IdleImage /\ IdleHandler
    /\ IdleNms /\ IdleLocation /\ IdleDecode /\ IdleAnnotate /\ IdleService

CallClampBBox ==
    /\ pc = "clamp_call" /\ fn = "_clamp_bbox"
    /\ result' = _clamp_bbox([k \in 1..4 |-> box[k] \div 2], clamp_width, clamp_height)
    /\ outcome' = "returned"
    /\ pc' = "clamp_done"
    /\ UNCHANGED <<fn, clampVars, nmsVars, locationVars, decodable, annotateVars,
                   overlapVars, mergeVars, filterVars, imageVars, handlerVars, serviceVars>>

CallClipBox ==
    /\ pc = "clamp_call" /\ fn = "_clip_box"
    /\ result' = _clip_box(box, clamp_width, clamp_height)
    /\ outcome' = "returned"
    /\ pc' = "clamp_done"
    /\ UNCHANGED <<fn, clampVars, nmsVars, locationVars, decodable, annotateVars,
                   overlapVars, mergeVars, filterVars, imageVars, handlerVars, serviceVars>>

NextClamp == CallClampBBox \/ CallClipBox

SpecClamp == InitClamp /\ [][NextClamp]_vars

\* C15: for an image of positive width and height, the box either clamping
\* function returns satisfies 0 <= x1 < x2 <= width and 0 <= y1 < y2 <= height.
C15_ClampedBox ==
    (pc = "clamp_done" /\ clamp_width > 0 /\ clamp_height > 0) =>
        /\ 0 <= result[1] /\ result[1] < result[3] /\ result[3] <= clamp_width
        /\ 0 <= result[2] /\ result[2] < result[4] /\ result[4] <= clamp_height

\* a box lying beyond the right and bottom edge, clipped by _clip_box: the
\* clamping collapses it and the far corner is nudged
C15_Witness ==
    /\ pc = "clamp_done" /\ fn = "_clip_box"
    /\ clamp_width = 2 /\ clamp_height = 1
    /\ box = <<5, 3, 6, 4>>
    /\ result = <<1, 0, 2, 1>>

----------------------------------------------------------------------------
(* single_agent.filter_detections_by_location: the sky, edge and roof-mask  *)
(* filter.  roof_mask is <<>> for None, and otherwise the rectangle         *)
(* <<mx1, my1, mx2, my2>> of the mask's nonzero pixels (columns mx1..mx2-1, *)
(* rows my1..my2-1) in an array of the image's size.                        *)

\* the most detections handed to the filter
MaxDetections == 2

\* the defaults, which are also what both call sites pass
top_margin_pct == <<12, 100>>
edge_margin_pct == <<3, 100>>
min_roof_overlap_pct == <<30, 100>>

\* int(x) of a non-negative fraction
IntOfRat(r) == r[1] \div r[2]

\* the slip this guards against: the cutoff rounded up instead of truncated
top_cutoff_RoundedUp(h) == (h * top_margin_pct[1] + top_margin_pct[2] - 1) \div top_margin_pct[2]

\* top_cutoff = int(img_height * top_margin_pct)
top_cutoff(h) == IntOfRat(<<h * top_margin_pct[1], top_margin_pct[2]>>)

\* edge_margin = int(min(img_width, img_height) * edge_margin_pct)
edge_margin(w, h) == IntOfRat(<<Min(w, h) * edge_margin_pct[1], edge_margin_pct[2]>>)

\* det.get("bbox", [0, 0, 0, 0])
BBoxOf(det) == Get(det, "bbox", <<0, 0, 0, 0>>)

\* the roof-mask test of one detection: FALSE when the detection is skipped
MaskKeeps(b, w, h, mask) ==
    LET ix1 == Max(0, b[1])
        iy1 == Max(0, b[2])
        ix2 == Min(w, b[3])
        iy2 == Min(h, b[4])
        det_width == ix2 - ix1
        det_height == iy2 - iy1
        roof_pixels == Max(0, Min(ix2, mask[3]) - Max(ix1, mask[1]))
                         * Max(0, Min(iy2, mask[4]) - Max(iy1, mask[2]))
    IN  /\ det_width > 0 /\ det_height > 0
        /\ RatGE(<<roof_pixels, det_width * det_height>>, min_roof_overlap_pct)

\* the body of the loop for one detection with a 4-element bbox: TRUE when
\* the detection is appended to filtered.  cx and cy are compared doubled.
LocationKeeps(det, w, h, mask) ==
    LET b == BBoxOf(det)
        cx2 == b[1] + b[3]
        cy2 == b[2] + b[4]
    IN  /\ ~(cy2 < 2 * top_cutoff(h))
        /\ ~(cx2 < 2 * edge_margin(w, h) \/ cx2 > 2 * (w - edge_margin(w, h)))
        /\ ~(cy2 > 2 * (h - edge_margin(w, h)))
        /\ mask # <<>> => MaskKeeps(b, w, h, mask)

\* filter_detections_by_location with the default margins: how the call ends
\* and what it returns.  `x1, y1, x2, y2 = bbox` raises ValueError on a bbox
\* that does not have four elements.
RECURSIVE filter_detections_by_location(_, _, _, _)
filter_detections_by_location(dets, w, h, mask) ==
    IF dets = <<>> THEN [outcome |-> "returned", result |-> <<>>]
    ELSE IF Len(BBoxOf(Head(dets))) # 4 THEN [outcome |-> "ValueError", result |-> <<>>]
    ELSE LET rest == filter_detections_by_location(Tail(dets), w, h, mask)
         IN  IF rest.outcome # "returned" THEN rest
             ELSE IF LocationKeeps(Head(dets), w, h, mask)
                  THEN [outcome |-> "returned", result |-> <<Head(dets)>> \o rest.result]
                  ELSE rest

\* centroid (30, 10.5)
Sky == [bbox |-> <<10, 1, 50, 20>>, confidence |-> 800, damage_type |-> "roof_damage"]
\* centroid (2.5, 30)
LeftEdge == [bbox |-> <<0, 20, 5, 40>>, confidence |-> 700, damage_type |-> "roof_damage"]
\* centroid (97.5, 30)
RightEdge == [bbox |-> <<95, 20, 100, 40>>, confidence |-> 700, damage_type |-> "roof_damage"]
\* centroid (50, 88.5)
Bottom == [bbox |-> <<40, 80, 60, 97>>, confidence |-> 700, damage_type |-> "roof_damage"]

LocationPool == {CrackA, Sky, LeftEdge, RightEdge, Bottom, Flat, NoBBox, ShortBBox}
LocationImageSizes == {<<100, 100>>, <<100, 90>>, <<8, 8>>}
\* no mask; the lower 85 rows; the left 22 columns (30% of CrackA); the left
\* 21 columns
RoofMasks == {<<>>, <<0, 15, 100, 100>>, <<0, 0, 22, 100>>, <<0, 0, 21, 100>>}

InitLocation ==
    /\ pc = "location_call"
    /\ fn = "filter_detections_by_location" /\ outcome = "" /\ result = <<>>
    /\ detections \in SeqsUpTo(LocationPool, MaxDetections)
    /\ \E size \in LocationImageSizes : img_width = size[1] /\ img_height = size[2]
    /\ roof_mask \in RoofMasks
    /\ IdleOverlap /\ IdleMerge /\ IdleFilter /\ IdleImage /\ IdleHandler
    /\ IdleNms /\ IdleClamp /\ IdleDecode /\ IdleAnnotate /\ IdleService

CallLocation ==
    /\ pc = "location_call"
    /\ LET r == filter_detections_by_location(detections, img_width, img_height, roof_mask)
       IN  outcome' = r.outcome /\ result' = r.result
    /\ pc' = "location_done"
    /\ UNCHANGED <<fn, locationVars, nmsVars, clampVars, decodable, annotateVars,
                   overlapVars, mergeVars, filterVars, imageVars, handlerVars, serviceVars>>

NextLocation == CallLocation

SpecLocation == InitLocation /\ [][NextLocation]_vars

\* the integer-pixel rectangle of a box inside the image, and how much of it
\* lies in the mask
PixelArea(b) ==
    Max(0, Min(img_width, b[3]) - Max(0, b[1])) * Max(0, Min(img_height, b[4]) - Max(0, b[2]))
PixelsInMask(b) ==
    Max(0, Min(Min(img_width, b[3]), roof_mask[3]) - Max(Max(0, b[1]), roof_mask[1]))
      * Max(0, Min(Min(img_height, b[4]), roof_mask[4]) - Max(Max(0, b[2]), roof_mask[2]))

\* the drop rule as C16 states it, margins as exact fractions of the size
DroppedAsStated(det) ==
    LET b == BBoxOf(det)
        m == Min(img_width, img_height)
    IN  \/ 100 * (b[2] + b[4]) < 2 * 12 * img_height
        \/ 100 * (b[1] + b[3]) < 2 * 3 * m
        \/ 100 * (b[1] + b[3]) > 2 * (100 * img_width - 3 * m)
        \/ 100 * (b[2] + b[4]) > 2 * (100 * img_height - 3 * m)
        \/ roof_mask # <<>> /\ 100 * PixelsInMask(b) < 30 * PixelArea(b)

\* the drop rule with the margins truncated to whole pixels, and a box of no
\* pixel dropped whenever there is a mask
DroppedTruncated(det) ==
    LET b == BBoxOf(det)
        m == Min(img_width, img_height)
        top == (12 * img_height - ((12 * img_height) % 100)) \div 100
        edge == (3 * m - ((3 * m) % 100)) \div 100
    IN  \/ b[2] + b[4] < 2 * top
        \/ b[1] + b[3] < 2 * edge
        \/ b[1] + b[3] > 2 * (img_width - edge)
        \/ b[2] + b[4] > 2 * (img_height - edge)
        \/ roof_mask # <<>> /\ (PixelArea(b) = 0 \/ 100 * PixelsInMask(b) < 30 * PixelArea(b))

KeptAsStated(det) == ~DroppedAsStated(det)
KeptTruncated(det) == ~DroppedTruncated(det)

\* every detection of the call carries a bbox of four elements
AllBoxed == \A k \in 1..Len(detections) : HasBBox(detections[k])

\* C16 as stated: the filter returns, in input order, exactly the candidates
\* whose centroid is neither above top_margin_pct x height nor within
\* edge_margin_pct x min(width, height) of the left, right or bottom edge, and
\* (with a mask) whose pixel area is at least min_roof_overlap_pct in the mask.
C16_LocationFilter_Original ==
    (pc = "location_done" /\ AllBoxed) =>
        outcome = "returned" /\ result = SelectSeq(detections, KeptAsStated)

\* C16 amended: the same with both margins truncated to whole pixels
\* (int(0.12 x height), int(0.03 x min(width, height))), strict comparisons,
\* and, when a mask is supplied, a candidate with no pixel inside the image
\* dropped as well.
C16_LocationFilter ==
    (pc = "location_done" /\ AllBoxed) =>
        outcome = "returned" /\ result = SelectSeq(detections, KeptTruncated)

\* a 100 x 90 image (top cutoff 10, not 10.8; edge margin 2, not 2.7): the
\* candidate centred at y = 10.5 is kept, and so is the one centred 2.5 from
\* the right edge; the one in the middle is kept too
C16_Witness ==
    /\ pc = "location_done"
    /\ img_width = 100 /\ img_height = 90 /\ roof_mask = <<>>
    /\ detections = <<Sky, RightEdge>>
    /\ result = <<Sky, RightEdge>>

\* the detections that carry a 4-element bbox
WellFormedDetection(det) == HasBBox(det)

\* C17 (for filter_detections_by_location): a call with a candidate whose
\* bbox is missing or does not have four elements does not raise, and returns
\* what it returns for the other candidates alone.
C17_MalformedSkipped ==
    pc = "location_done" =>
        /\ outcome = "returned"
        /\ result = filter_detections_by_location(SelectSeq(detections, WellFormedDetection),
                                                  img_width, img_height, roof_mask).result

----------------------------------------------------------------------------
(* Decoding the image: the classical detectors of cv_utils and the fusion   *)
(* call single_agent.enrich_with_cv.  What the detectors and the boundary   *)
(* estimator find in the pixels of a decodable image is not modelled: each  *)
(* yields any of a few findings of the shape the code builds.               *)

\* merge_damage_areas from secondary element j on
RECURSIVE MergeFrom(_, _, _, _, _)
MergeFrom(m, al, sec, j, t) ==
    IF j > Len(sec) THEN m
    ELSE LET r == merge_step(m, al, sec[j], j, t)
         IN  MergeFrom(r.merged, r.alias, sec, j + 1, t)

\* merge_damage_areas(primary, secondary, iou_threshold): the returned list
merge_damage_areas(prim, sec, t) ==
    MergeFrom(prim, [k \in 1..Len(prim) |-> 0], sec, 1, t)

\* the iou_threshold of the three merges of enrich_with_cv
missing_iou_threshold == <<35, 100>>
discoloration_iou_threshold == <<30, 100>>
underlayment_iou_threshold == <<30, 100>>

Detectors == {"detect_missing_shingles_cv", "detect_exposed_underlayment_cv",
              "detect_dark_patches_cv", "detect_discoloration_cv"}

\* a finding of each detector
MissingFinding == [bbox |-> <<12, 12, 48, 48>>, confidence |-> 550,
                   damage_type |-> "missing_shingles", source |-> "cv"]
UnderlaymentFinding == [bbox |-> <<10, 10, 50, 40>>, confidence |-> 920,
                        damage_type |-> "exposed_underlayment", source |-> "cv_color"]
DarkFinding == [bbox |-> <<60, 60, 80, 80>>, confidence |-> 500,
               damage_type |-> "missing_shingles", source |-> "cv_dark_patch"]
\* a contour of area 1500 to 1521 (at least min_area = 600) in a bounding
\* rectangle of 40 x 40: on both image sizes 0.3 + 4 * area / (width * height)
\* is at least 0.9, so confidence = 0.9 and discoloration_severity =
\* min(1.0, 0.4 + 0.9) = 1.0
DiscolorationFinding == [bbox |-> <<10, 10, 50, 50>>, confidence |-> 900,
                         damage_type |-> "discoloration", discoloration_severity |-> 1000,
                         source |-> "cv"]

\* what a detector may return for a decodable image
Findings(f) ==
    {<<>>} \cup
    (IF f = "detect_missing_shingles_cv" THEN {<<MissingFinding>>}
     ELSE IF f = "detect_exposed_underlayment_cv" THEN {<<UnderlaymentFinding>>}
     ELSE IF f = "detect_dark_patches_cv" THEN {<<DarkFinding>>}
     ELSE {<<DiscolorationFinding>>})

\* a detection of the model as run_yolo_inference builds it
YoloA == [bbox |-> <<10, 10, 50, 50>>, confidence |-> 900, damage_type |-> "roof_damage",
          source |-> "yolo", model_class_id |-> 0]
YoloSky == [bbox |-> <<10, 1, 50, 20>>, confidence |-> 400, damage_type |-> "roof_damage",
            source |-> "yolo", model_class_id |-> 0]

EnrichPool == {YoloA, YoloSky, Bottom}

\* img.shape[:2] of a decodable image
DecodedSizes == {<<100, 100>>, <<100, 90>>}

InitDecode ==
    /\ pc = "decode_call"
    /\ fn \in Detectors \cup {"enrich_with_cv"}
    /\ decodable \in BOOLEAN
    /\ detections \in SeqsUpTo(EnrichPool, MaxDetections)
    /\ fn \in Detectors => detections = <<>>
    /\ outcome = "" /\ result = <<>>
    /\ img_width = 0 /\ img_height = 0 /\ roof_mask = <<>>
    /\ IdleOverlap /\ IdleMerge /\ IdleFilter /\ IdleImage /\ IdleHandler
    /\ IdleNms /\ IdleClamp /\ IdleAnnotate /\ IdleService

\* a classical detector, e.g. detect_missing_shingles_cv lines 61-117:
\* `if img is None: return []`
CallDetector ==
    /\ pc = "decode_call" /\ fn \in Detectors
    /\ IF decodable THEN result' \in Findings(fn) ELSE result' = <<>>
    /\ outcome' = "returned"
    /\ pc' = "decode_done"
    /\ UNCHANGED <<fn, decodable, locationVars, nmsVars, clampVars, annotateVars,
                   overlapVars, mergeVars, filterVars, imageVars, handlerVars, serviceVars>>

\* enrich_with_cv lines 403-412: `if img is None: return detections`
EnrichDecode ==
    /\ pc = "decode_call" /\ fn = "enrich_with_cv"
    /\ IF decodable
       THEN /\ \E size \in DecodedSizes : img_width' = size[1] /\ img_height' = size[2]
            /\ roof_mask' \in RoofMasks \ {<<>>}
            /\ pc' = "enrich_missing"
            /\ UNCHANGED <<outcome, result>>
       ELSE /\ outcome' = "returned" /\ result' = detections
            /\ pc' = "decode_done"
            /\ UNCHANGED <<img_width, img_height, roof_mask>>
    /\ UNCHANGED <<fn, decodable, detections, nmsVars, clampVars, annotateVars,
                   overlapVars, mergeVars, filterVars, imageVars, handlerVars, serviceVars>>

\* lines 414-415
EnrichMissing ==
    /\ pc = "enrich_missing"
    /\ \E cv_missing \in Findings("detect_missing_shingles_cv") :
           merged' = merge_damage_areas(detections, cv_missing, missing_iou_threshold)
    /\ pc' = "enrich_discoloration"
    /\ UNCHANGED <<primary, secondary, iou_threshold, secondary0, alias, mi,
                   callVars, decodable, locationVars, nmsVars, clampVars, annotateVars,
                   overlapVars, filterVars, imageVars, handlerVars, serviceVars>>

\* lines 417-418
EnrichDiscoloration ==
    /\ pc = "enrich_discoloration"
    /\ \E cv_discoloration \in Findings("detect_discoloration_cv") :
           merged' = merge_damage_areas(merged, cv_discoloration, discoloration_iou_threshold)
    /\ pc' = "enrich_underlayment"
    /\ UNCHANGED <<primary, secondary, iou_threshold, secondary0, alias, mi,
                   callVars, decodable, locationVars, nmsVars, clampVars, annotateVars,
                   overlapVars, filterVars, imageVars, handlerVars, serviceVars>>

\* lines 421-436: the last merge, the location filter, the return
EnrichUnderlayment ==
    /\ pc = "enrich_underlayment"
    /\ \E cv_underlayment \in Findings("detect_exposed_underlayment_cv") :
           LET m == merge_damage_areas(merged, cv_underlayment, underlayment_iou_threshold)
               r == filter_detections_by_location(m, img_width, img_height, roof_mask)
           IN  /\ merged' = IF r.outcome = "returned" THEN r.result ELSE m
               /\ outcome' = r.outcome
               /\ result' = r.result
    /\ pc' = "decode_done"
    /\ UNCHANGED <<primary, secondary, iou_threshold, secondary0, alias, mi,
                   fn, decodable, locationVars, nmsVars, clampVars, annotateVars,
                   overlapVars, filterVars, imageVars, handlerVars, serviceVars>>

NextDecode ==
    CallDetector \/ EnrichDecode \/ EnrichMissing \/ EnrichDiscoloration \/ EnrichUnderlayment

SpecDecode == InitDecode /\ [][NextDecode]_vars

\* C18: a detector call or a fusion call on image bytes that cannot be
\* decoded ends in a fatal decode error, not in a returned candidate list.
C18_DecodeFailureIsFatal ==
    (pc = "decode_done" /\ ~decodable) => outcome = "ImageDecodeError"

----------------------------------------------------------------------------
(* merge_damage_areas and its arguments *)

\* C19: after a call of merge_damage_areas both argument lists, and every
\* candidate in them, have the contents they had before the call.
C19_MergeLeavesArguments ==
    pc = "merge_done" => secondary = secondary0

----------------------------------------------------------------------------
(* cv_utils.annotate_damage_with_ai: labelling the candidates with the      *)
(* external annotator, five boxes to a request.  updated, a dict keyed by   *)
(* tuple(bbox), is the sequence of its items in insertion order.            *)

\* the most candidates handed to the annotator
MaxAnnotated == 6

\* _chunk_damage_areas(damage_areas, size=5)
chunk_size == 5

\* the position of key in the dict d (0: not a key)
KeyIndex(d, key) ==
    IF \E k \in 1..Len(d) : d[k].key = key
    THEN CHOOSE k \in 1..Len(d) : d[k].key = key
    ELSE 0

\* d[key] = area: a new key goes last, an old key keeps its place
SetItem(d, key, area) ==
    IF KeyIndex(d, key) = 0 THEN Append(d, [key |-> key, area |-> area])
    ELSE [d EXCEPT ![KeyIndex(d, key)] = [key |-> key, area |-> area]]

\* {tuple(area["bbox"]): area for area in areas if "bbox" in area}
RECURSIVE BuildUpdated(_, _)
BuildUpdated(d, areas) ==
    IF areas = <<>> THEN d
    ELSE IF "bbox" \in DOMAIN Head(areas)
         THEN BuildUpdated(SetItem(d, Head(areas)["bbox"], Head(areas)), Tail(areas))
         ELSE BuildUpdated(d, Tail(areas))

\* list(updated.values())
DictValues(d) == [k \in 1..Len(d) |-> d[k].area]

\* chunk number c of the list
Chunk(areas, c) ==
    SubSeq(areas, (c - 1) * chunk_size + 1, Min(c * chunk_size, Len(areas)))

\* the answers of the annotator: no result, or a classification of every box
\* of the request as severe cracks
AIResults == {"None", "classifications"}

\* lines 363-369 for a request classified in full
RECURSIVE Classify(_, _)
Classify(d, chunk) ==
    IF chunk = <<>> THEN d
    ELSE LET k == KeyIndex(d, Head(chunk)["bbox"])
             labelled == IF k = 0 THEN d
                         ELSE [d EXCEPT ![k].area =
                                  Update(@, [damage_type |-> "cracks", severity |-> "severe",
                                             ai_provider |-> "openai"])]
         IN  Classify(labelled, Tail(chunk))

\* line 354 stores the caller's dicts themselves: the value under a key is
\* the last candidate of the list with that bbox, and lines 367-369 write
\* into it.  The list after the dict d was written: the owner of each key as
\* d holds it, every other candidate as it was
WrittenThrough(areas, d) ==
    [j \in 1..Len(areas) |->
        IF /\ "bbox" \in DOMAIN areas[j]
           /\ \A k \in (j + 1)..Len(areas) :
                  "bbox" \in DOMAIN areas[k] => areas[k]["bbox"] # areas[j]["bbox"]
        THEN d[KeyIndex(d, areas[j]["bbox"])].area
        ELSE areas[j]]

AnnotatePool == {CrackA, Bare, StainB, NoBBox}

InitAnnotate ==
    /\ pc = "annotate_call"
    /\ fn = "annotate_damage_with_ai" /\ outcome = "" /\ result = <<>>
    /\ damage_areas \in SeqsUpTo(AnnotatePool, MaxAnnotated)
    /\ ai_client \in BOOLEAN
    /\ updated = <<>> /\ ci = 0 /\ responses = <<>>
    /\ max_fraction = Zero /\ filtered_result = <<>>
    /\ IdleOverlap /\ IdleMerge /\ IdleImage /\ IdleHandler
    /\ IdleNms /\ IdleClamp /\ IdleLocation /\ IdleDecode /\ IdleService

\* lines 332-333 and 354
AnnotateStart ==
    /\ pc = "annotate_call"
    /\ IF ~ai_client \/ damage_areas = <<>>
       THEN /\ outcome' = "returned" /\ result' = damage_areas
            /\ pc' = "annotate_done"
            /\ UNCHANGED <<updated, ci>>
       ELSE /\ updated' = BuildUpdated(<<>>, damage_areas)
            /\ ci' = 1
            /\ pc' = "annotate_chunk"
            /\ UNCHANGED <<outcome, result>>
    /\ UNCHANGED <<fn, ai_client, responses, damage_areas, max_fraction, filtered_result,
                   decodable, locationVars, nmsVars, clampVars,
                   overlapVars, mergeVars, imageVars, handlerVars, serviceVars>>

\* lines 356-371, one chunk: area["bbox"] raises KeyError for a candidate
\* without a bbox, before the annotator is asked; the labels are written into
\* the caller's candidates
AnnotateChunk ==
    /\ pc = "annotate_chunk"
    /\ LET chunk == Chunk(damage_areas, ci)
           last == ci * chunk_size >= Len(damage_areas)
       IN  IF \E k \in 1..Len(chunk) : "bbox" \notin DOMAIN chunk[k]
           THEN /\ outcome' = "KeyError"
                /\ pc' = "annotate_done"
                /\ UNCHANGED <<result, updated, ci, responses, damage_areas>>
           ELSE \E r \in AIResults :
                    LET d == IF r = "None" THEN updated ELSE Classify(updated, chunk)
                    IN  /\ responses' = Append(responses, r)
                        /\ updated' = d
                        /\ damage_areas' = WrittenThrough(damage_areas, d)
                        /\ ci' = IF last THEN ci ELSE ci + 1
                        /\ pc' = IF last THEN "annotate_done" ELSE "annotate_chunk"
                        /\ outcome' = IF last THEN "returned" ELSE outcome
                        /\ result' = IF last THEN DictValues(d) ELSE result
    /\ UNCHANGED <<fn, ai_client, max_fraction, filtered_result,
                   decodable, locationVars, nmsVars, clampVars,
                   overlapVars, mergeVars, imageVars, handlerVars, serviceVars>>

NextAnnotate == AnnotateStart \/ AnnotateChunk

SpecAnnotate == InitAnnotate /\ [][NextAnnotate]_vars

\* C20: when the annotator answers None to every request,
\* annotate_damage_with_ai raises nothing and returns the candidates it was
\* given: as many, in the same order, with the same fields.
C20_NoneLeavesCandidates ==
    (/\ pc = "annotate_done"
     /\ responses # <<>>
     /\ \A k \in 1..Len(responses) : responses[k] = "None") =>
        outcome = "returned" /\ result = damage_areas

----------------------------------------------------------------------------
(* cv_utils.count_damage_instances *)

\* longest list given to count_damage_instances
MaxCounted == 3

\* a candidate whose damage_type is the string "unknown"
Unlabelled == [bbox |-> <<60, 60, 80, 80>>, confidence |-> 500, damage_type |-> "unknown"]

CountPool == {CrackA, StainB, NoBBox, Bare, Unlabelled}

InitCount ==
    /\ pc = "count_call"
    /\ damage_areas \in SeqsUpTo(CountPool, MaxCounted)
    /\ max_fraction = Zero /\ filtered_result = <<>>
    /\ IdleOverlap /\ IdleMerge /\ IdleImage /\ IdleHandler /\ IdleSingle

CallCount ==
    /\ pc = "count_call"
    /\ damage_counts' = count_damage_instances(damage_areas)
    /\ pc' = "count_done"
    /\ UNCHANGED <<filterVars, overlay_uploaded, report_uploaded, workflow_status,
                   grid_size, contours, yoloVars, clientVars, callVars, nmsVars, clampVars,
                   locationVars, decodable, annotateVars,
                   overlapVars, mergeVars, imageVars, handlerVars>>

NextCount == CallCount

SpecCount == InitCount /\ [][NextCount]_vars

\* sum(counts.values())
RECURSIVE SumOver(_, _)
SumOver(counts, keys) ==
    IF keys = {} THEN 0
    ELSE LET k == CHOOSE x \in keys : TRUE
         IN  counts[k] + SumOver(counts, keys \ {k})
SumValues(counts) == SumOver(counts, DOMAIN counts)

\* how many elements of the list carry no damage_type
Untyped(areas) == Cardinality({i \in 1..Len(areas) : "damage_type" \notin DOMAIN areas[i]})

\* C21: the values of the mapping count_damage_instances returns sum to the
\* length of the list, and every candidate without a damage_type is counted
\* under "unknown"
C21_CountsSumToLength ==
    pc = "count_done" =>
        /\ SumValues(damage_counts) = Len(damage_areas)
        /\ Untyped(damage_areas) > 0 =>
               /\ "unknown" \in DOMAIN damage_counts
               /\ damage_counts["unknown"] >= Untyped(damage_areas)

\* a list with a repeated type and a candidate without damage_type has been counted
C21_Witness ==
    /\ pc = "count_done"
    /\ damage_areas = <<CrackA, Bare, NoBBox>>
    /\ damage_counts["crack"] = 2 /\ damage_counts["unknown"] = 1

----------------------------------------------------------------------------
(* image_utils.pixel_to_grid_coords, image_utils.bbox_to_grid_coords *)

\* grid_size: int = 10
default_grid_size == 10

\* int(n / d) for integers n and d > 0: truncation toward zero
IntOfQuotient(n, d) == IF n >= 0 THEN n \div d ELSE -((-n) \div d)

\* lines 97-99; int((x / image_width) * grid_size) is the truncated x * grid_size / image_width
pixel_to_grid_coords(x, y, w, h, g) ==
    LET col == IntOfQuotient(x * g, w)
        row == IntOfQuotient(y * g, h)
    IN  [row |-> Min(row, g - 1), col |-> Min(col, g - 1)]

\* lines 115-122, integer coordinates; int(center_x) truncates (x1 + x2) / 2
bbox_to_grid_coords(b, w, h, g) ==
    IF Len(b) # 4 THEN [row |-> 0, col |-> 0]
    ELSE LET center_x == IntOfQuotient(b[1] + b[3], 2)
             center_y == IntOfQuotient(b[2] + b[4], 2)
         IN  pixel_to_grid_coords(center_x, center_y, w, h, g)

GridCoords == {-30, -10, 0, 5, 50, 100, 130}
GridBoxes == {<<x1, y1, x2, y2>> : x1 \in GridCoords, y1 \in GridCoords,
                                   x2 \in GridCoords, y2 \in GridCoords}
                 \cup {<<>>, <<10, 10, 50>>}
GridImageSizes == {<<100, 100>>, <<8, 8>>}
GridSizes == {default_grid_size, 3}

InitGrid ==
    /\ pc = "grid_call"
    /\ box \in GridBoxes
    /\ \E size \in GridImageSizes : image_width = size[1] /\ image_height = size[2]
    /\ grid_size \in GridSizes
    /\ fn = "bbox_to_grid_coords" /\ outcome = "" /\ result = <<>>
    /\ clamp_width = 0 /\ clamp_height = 0
    /\ IdleOverlap /\ IdleMerge /\ IdleFilter /\ IdleHandler
    /\ IdleNms /\ IdleLocation /\ IdleDecode /\ IdleAnnotate
    /\ IdleReport /\ IdleRoof /\ IdleClient /\ IdleYolo

CallGrid ==
    /\ pc = "grid_call"
    /\ result' = bbox_to_grid_coords(box, image_width, image_height, grid_size)
    /\ outcome' = "returned"
    /\ pc' = "grid_done"
    /\ UNCHANGED <<fn, clampVars, grid_size, imageVars, reportVars, contours, yoloVars, clientVars,
                   nmsVars, locationVars, decodable, annotateVars,
                   overlapVars, mergeVars, filterVars, handlerVars>>

NextGrid == CallGrid

SpecGrid == InitGrid /\ [][NextGrid]_vars

\* the grid cell holding the midpoint of c1 and c2 along an axis of dim pixels:
\* floor(((c1 + c2) / 2) * g / dim)
CentroidCell(c1, c2, dim, g) == ((c1 + c2) * g) \div (2 * dim)

\* v clamped into [0, g - 1]
ClampCell(v, g) == Max(0, Min(v, g - 1))

\* C22: for a 4-element bbox and an image of positive size, row and col lie
\* in [0, grid_size - 1] and are the cell of the bbox centroid clamped into
\* that range
C22_GridCell ==
    (pc = "grid_done" /\ Len(box) = 4) =>
        /\ result.row \in 0..(grid_size - 1)
        /\ result.col \in 0..(grid_size - 1)
        /\ result.col = ClampCell(CentroidCell(box[1], box[3], image_width, grid_size),
                                  grid_size)
        /\ result.row = ClampCell(CentroidCell(box[2], box[4], image_height, grid_size),
                                  grid_size)

\* the part of C22 that does hold: neither coordinate exceeds grid_size - 1
C22_UpperClamp ==
    pc = "grid_done" => (result.row <= grid_size - 1 /\ result.col <= grid_size - 1)

----------------------------------------------------------------------------
(* single_agent.detect_roof_boundary: the contour test and the fallback mask *)

\* largest "small" image side enumerated for detect_roof_boundary
MaxRoofDim == 7
\* most contours cv2.findContours returns
MaxContours == 2

\* fallback_mask[int(h * 0.15):, :]
fallback_top_pct == <<15, 100>>
\* min_area = h * w * 0.05
min_area_pct == <<5, 100>>

\* the slip this guards against: the first marked row rounded up, which
\* leaves a one-row image with no marked row
fallback_mask_RoundedUp(h, w) ==
    <<0, (fallback_top_pct[1] * h + fallback_top_pct[2] - 1) \div fallback_top_pct[2], w, h>>

\* lines 130-132 and 140-142: a mask is the rectangle <<x1, y1, x2, y2>> of its
\* pixels set to 255; rows int(h * 0.15) .. h - 1, every column
fallback_mask(h, w) ==
    <<0, IntOfRat(<<fallback_top_pct[1] * h, fallback_top_pct[2]>>), w, h>>

\* line 136: cv2.contourArea(c) > min_area
IsLarge(area, h, w) == RatGT(<<area, 1>>, <<min_area_pct[1] * h * w, min_area_pct[2]>>)

\* line 136
large_contours(cs, h, w) == SelectSeq(cs, LAMBDA area : IsLarge(area, h, w))

RoofDims == (1..MaxRoofDim) \cup {20, 100}
\* contour areas around the 5% mark of an h x w image; a contour runs through
\* pixel centres, so that cv2.contourArea is at most (h - 1) * (w - 1)
ContourAreas(h, w) ==
    {a \in {0, (h * w) \div 20, (h * w) \div 20 + 1, (h - 1) * (w - 1)} :
        a <= (h - 1) * (w - 1)}
\* line 149: cv2.dilate with kernel_close, the 15 x 15 ellipse of line 119,
\* whose middle row and middle column are set over their whole length: a mark
\* spreads 7 pixels up, down, left and right
dilate_reach == 7

\* lines 145-149 for a large contour that spans the rows r1 .. r2 - 1 over the
\* whole width: filled, then dilated
DilatedRows(r1, r2, h, w) == <<0, Max(0, r1 - dilate_reach), w, Min(h, r2 + dilate_reach)>>

\* the same for the columns c1 .. c2 - 1 over the whole height
DilatedColumns(c1, c2, h, w) == <<Max(0, c1 - dilate_reach), 0, Min(w, c2 + dilate_reach), h>>

\* where the bands of the sample begin and end on a side of n pixels
BandEdges(n) == {0, n \div 2, n}

\* lines 145-149: the mask drawn from the large contours depends on where they
\* lie; the sample is one band of rows or of columns (the whole image, a half)
DrawnMasks(h, w) ==
    {DilatedRows(b[1], b[2], h, w) : b \in {e \in BandEdges(h) \X BandEdges(h) : e[1] < e[2]}}
    \cup {DilatedColumns(b[1], b[2], h, w) :
              b \in {e \in BandEdges(w) \X BandEdges(w) : e[1] < e[2]}}

InitRoof ==
    /\ pc = "roof_call"
    /\ img_width \in RoofDims /\ img_height \in RoofDims
    /\ contours \in SeqsUpTo(ContourAreas(img_height, img_width), MaxContours)
    /\ detections = <<>> /\ roof_mask = <<>>
    /\ fn = "detect_roof_boundary" /\ outcome = "" /\ result = <<>>
    /\ IdleOverlap /\ IdleMerge /\ IdleFilter /\ IdleImage /\ IdleHandler
    /\ IdleNms /\ IdleClamp /\ IdleDecode /\ IdleAnnotate
    /\ IdleReport /\ IdleGrid /\ IdleClient /\ IdleYolo

\* lines 126-151
CallRoof ==
    /\ pc = "roof_call"
    /\ IF contours = <<>> \/ large_contours(contours, img_height, img_width) = <<>>
       THEN /\ outcome' = "fallback"
            /\ roof_mask' = fallback_mask(img_height, img_width)
       ELSE /\ outcome' = "contours"
            /\ roof_mask' \in DrawnMasks(img_height, img_width)
    /\ pc' = "roof_done"
    /\ UNCHANGED <<fn, result, detections, img_width, img_height, contours, yoloVars, reportVars,
                   grid_size, clientVars, nmsVars, clampVars, decodable, annotateVars,
                   overlapVars, mergeVars, filterVars, imageVars, handlerVars>>

NextRoof == CallRoof

SpecRoof == InitRoof /\ [][NextRoof]_vars

\* no contour covers more than 5% of the image
NoLargeComponent ==
    \A i \in 1..Len(contours) : 20 * contours[i] <= img_height * img_width

\* the rows a mask marks on every column of a width-w image
MarkedRows(mask, w) == IF mask[1] = 0 /\ mask[3] = w THEN mask[2]..(mask[4] - 1) ELSE {}

\* C23: when the estimator falls back (no contour, or none above 5% of the
\* image area) the mask marks every row from floor(0.15 x height) down to the
\* last one, and marks at least one pixel
C23_FallbackMask ==
    (pc = "roof_done" /\ NoLargeComponent) =>
        /\ outcome = "fallback"
        /\ MarkedRows(roof_mask, img_width) = ((15 * img_height) \div 100)..(img_height - 1)
        /\ MarkedRows(roof_mask, img_width) # {}
        /\ img_width > 0

\* the fallback has been taken on a one-row image with contours that are all small
C23_Witness ==
    /\ pc = "roof_done" /\ outcome = "fallback"
    /\ img_height = 1 /\ contours # <<>>
    /\ roof_mask = <<0, 0, img_width, 1>>

----------------------------------------------------------------------------
(* agent-color/ai_client.AIClient and shared/cache.py *)

\* how often the clock advances, by half a time-to-live each time
MaxTicks == 3
\* OpenAI is not asked again once this many failures are counted with the
\* breaker still closed
MaxFailures == 4
\* most seconds spent inside calls between two ticks of the clock
MaxCallSeconds == 30

\* _cache_ttl = 3600  (seconds)
_cache_ttl == 3600
\* `if len(_cache) > 1000`
max_entries == 1000
\* sorted_items[:200]
evicted == 200
\* OpenAI(timeout=30.0): the seconds a request can take
openai_timeout == 30
\* self.circuit_breaker_threshold = 3
circuit_breaker_threshold == 3

\* Optional[Dict]: None, or a dict known by the set of its keys
None == [py |-> "None"]
Dict(fields) == [py |-> "dict", fields |-> fields]
\* `if cached_result:` / `if result:`; None and the empty dict are false
Truthy(v) == v.py = "dict" /\ v.fields # {}

EmptyDict == Dict({})
ResultA == Dict({"detections", "materials"})
ResultB == Dict({"test"})

\* what the remote API does with a request: an exception, text that is not
\* JSON, or text that parses to a value
ApiError == [kind |-> "api_error"]
BadJson == [kind |-> "bad_json"]
Parsed(v) == [kind |-> "result", value |-> v]
OpenAIReplies == {ApiError, BadJson, Parsed(EmptyDict), Parsed(ResultA)}
OpenRouterReplies == {ApiError, BadJson, Parsed(EmptyDict), Parsed(ResultB)}

Images == {<<7>>}
Prompts == {<<1>>, <<2>>}

\* cache.get_cache_key: sha256 of image_bytes + prompt bytes; the digest is
\* taken to be collision-free, so the key is the concatenation itself
get_cache_key(image_bytes, prompt) == image_bytes \o prompt

\* _cache is the sequence of its items [key, response, timestamp] in
\* insertion order, the order sorted() keeps among equal timestamps

\* key in _cache
CacheHas(c, key) == KeyIndex(c, key) # 0
\* _cache[key]
CacheGet(c, key) == c[KeyIndex(c, key)]
\* _cache[key] = (response, timestamp): a new key goes last, an old key keeps
\* its place
CacheSet(c, key, response, timestamp) ==
    LET item == [key |-> key, response |-> response, timestamp |-> timestamp]
    IN  IF CacheHas(c, key) THEN [c EXCEPT ![KeyIndex(c, key)] = item]
        ELSE Append(c, item)
\* del _cache[key]
CacheDel(c, key) == SelectSeq(c, LAMBDA item : item.key # key)

\* cache.get_cached_response at time t: the value returned and the dict afterwards
get_cached_response(c, key, t) ==
    IF CacheHas(c, key)
    THEN IF t - CacheGet(c, key).timestamp < _cache_ttl
         THEN [value |-> CacheGet(c, key).response, cache |-> c]
         ELSE [value |-> None, cache |-> CacheDel(c, key)]
    ELSE [value |-> None, cache |-> c]

\* the position of item i of c in sorted(_cache.items(), key=timestamp),
\* counted from 1: a stable sort
SortedPosition(c, i) ==
    1 + Cardinality({j \in 1..Len(c) :
                        \/ c[j].timestamp < c[i].timestamp
                        \/ (c[j].timestamp = c[i].timestamp /\ j < i)})

\* lines 59-63: above max_entries items, the evicted oldest are deleted
cleanup(c) ==
    IF Len(c) > max_entries
    THEN LET kept == {i \in 1..Len(c) : SortedPosition(c, i) > evicted}
             \* the i-th kept item in insertion order
             nth(i) == CHOOSE k \in kept : Cardinality({j \in kept : j <= k}) = i
         IN  [i \in 1..Cardinality(kept) |-> c[nth(i)]]
    ELSE c

\* cache.set_cached_response at time t
set_cached_response(c, key, response, t) == cleanup(CacheSet(c, key, response, t))

\* AIClient._call_openai on a client with the given breaker fields, the API
\* answering with reply: the value returned, the fields afterwards, and whether
\* the API was called
_call_openai(client, reply, open, failures) ==
    IF ~client
    THEN [value |-> None, open |-> open, failures |-> failures, called |-> FALSE]
    ELSE IF reply.kind = "result"
    THEN [value |-> reply.value, open |-> open, failures |-> 0, called |-> TRUE]
    ELSE IF reply.kind = "bad_json"
    THEN [value |-> None, open |-> open, failures |-> failures + 1, called |-> TRUE]
    ELSE [value |-> None,
          open |-> IF failures + 1 >= circuit_breaker_threshold THEN TRUE ELSE open,
          failures |-> failures + 1, called |-> TRUE]

\* AIClient._call_openrouter
_call_openrouter(key_set, reply) ==
    IF ~key_set THEN [value |-> None, called |-> FALSE]
    ELSE IF reply.kind = "result" THEN [value |-> reply.value, called |-> TRUE]
    ELSE [value |-> None, called |-> TRUE]

Event(to, reply) == [to |-> to, reply |-> reply]

\* the slip this guards against: the breaker not consulted, OpenAI asked on
\* every cache miss
detect_content_BreakerIgnored(image_bytes, prompt, r1, r2, t2) ==
    LET cache_key == get_cache_key(image_bytes, prompt)
        got == get_cached_response(_cache, cache_key, now)
        a == _call_openai(openai_client, r1, circuit_breaker_open,
                          circuit_breaker_failures)
        ev1 == IF a.called THEN <<Event("openai", r1)>> ELSE <<>>
        b == _call_openrouter(openrouter_key, r2)
        ev2 == IF b.called THEN <<Event("openrouter", r2)>> ELSE <<>>
    IN  IF Truthy(got.value)
        THEN [value |-> got.value, provider |-> "cache", cache |-> got.cache,
              open |-> circuit_breaker_open, failures |-> circuit_breaker_failures,
              events |-> <<>>]
        ELSE IF Truthy(a.value)
        THEN [value |-> a.value, provider |-> "openai",
              cache |-> set_cached_response(got.cache, cache_key, a.value, t2),
              open |-> a.open, failures |-> a.failures,
              events |-> ev1 \o <<Event("set_cached_response", Parsed(a.value))>>]
        ELSE IF Truthy(b.value)
        THEN [value |-> b.value, provider |-> "openrouter",
              cache |-> set_cached_response(got.cache, cache_key, b.value, t2),
              open |-> a.open, failures |-> a.failures,
              events |-> ev1 \o ev2 \o <<Event("set_cached_response", Parsed(b.value))>>]
        ELSE [value |-> None, provider |-> "error", cache |-> got.cache,
              open |-> a.open, failures |-> a.failures, events |-> ev1 \o ev2]

\* the slip this guards against: a cache hit that refreshes the entry it read
detect_content_HitRewrites(image_bytes, prompt, r1, r2, t2) ==
    LET cache_key == get_cache_key(image_bytes, prompt)
        got == get_cached_response(_cache, cache_key, now)
        a == IF ~circuit_breaker_open
             THEN _call_openai(openai_client, r1, circuit_breaker_open,
                               circuit_breaker_failures)
             ELSE [value |-> None, open |-> circuit_breaker_open,
                   failures |-> circuit_breaker_failures, called |-> FALSE]
        ev1 == IF a.called THEN <<Event("openai", r1)>> ELSE <<>>
        b == _call_openrouter(openrouter_key, r2)
        ev2 == IF b.called THEN <<Event("openrouter", r2)>> ELSE <<>>
    IN  IF Truthy(got.value)
        THEN [value |-> got.value, provider |-> "cache",
              cache |-> set_cached_response(got.cache, cache_key, got.value, now),
              open |-> circuit_breaker_open, failures |-> circuit_breaker_failures,
              events |-> <<Event("set_cached_response", Parsed(got.value))>>]
        ELSE IF Truthy(a.value)
        THEN [value |-> a.value, provider |-> "openai",
              cache |-> set_cached_response(got.cache, cache_key, a.value, t2),
              open |-> a.open, failures |-> a.failures,
              events |-> ev1 \o <<Event("set_cached_response", Parsed(a.value))>>]
        ELSE IF Truthy(b.value)
        THEN [value |-> b.value, provider |-> "openrouter",
              cache |-> set_cached_response(got.cache, cache_key, b.value, t2),
              open |-> a.open, failures |-> a.failures,
              events |-> ev1 \o ev2 \o <<Event("set_cached_response", Parsed(b.value))>>]
        ELSE [value |-> None, provider |-> "error", cache |-> got.cache,
              open |-> a.open, failures |-> a.failures, events |-> ev1 \o ev2]

\* AIClient.detect_content, lines 195-214, on the client and cache of the
\* current state; r1 and r2 are what OpenAI and OpenRouter would answer, t2 is
\* time.time() when the answer is stored.
\* OpenRouter is asked only when OpenAI gave nothing usable.
detect_content(image_bytes, prompt, r1, r2, t2) ==
    LET cache_key == get_cache_key(image_bytes, prompt)
        got == get_cached_response(_cache, cache_key, now)
        a == IF ~circuit_breaker_open
             THEN _call_openai(openai_client, r1, circuit_breaker_open,
                               circuit_breaker_failures)
             ELSE [value |-> None, open |-> circuit_breaker_open,
                   failures |-> circuit_breaker_failures, called |-> FALSE]
        ev1 == IF a.called THEN <<Event("openai", r1)>> ELSE <<>>
        b == _call_openrouter(openrouter_key, r2)
        ev2 == IF b.called THEN <<Event("openrouter", r2)>> ELSE <<>>
    IN  IF Truthy(got.value)
        THEN [value |-> got.value, provider |-> "cache", cache |-> got.cache,
              open |-> circuit_breaker_open, failures |-> circuit_breaker_failures,
              events |-> <<>>]
        ELSE IF Truthy(a.value)
        THEN [value |-> a.value, provider |-> "openai",
              cache |-> set_cached_response(got.cache, cache_key, a.value, t2),
              open |-> a.open, failures |-> a.failures,
              events |-> ev1 \o <<Event("set_cached_response", Parsed(a.value))>>]
        ELSE IF Truthy(b.value)
        THEN [value |-> b.value, provider |-> "openrouter",
              cache |-> set_cached_response(got.cache, cache_key, b.value, t2),
              open |-> a.open, failures |-> a.failures,
              events |-> ev1 \o ev2 \o <<Event("set_cached_response", Parsed(b.value))>>]
        ELSE [value |-> None, provider |-> "error", cache |-> got.cache,
              open |-> a.open, failures |-> a.failures, events |-> ev1 \o ev2]

\* AIClient.__init__: the breaker closed, no failure counted; the module's
\* cache empty
InitClient ==
    /\ pc = "client_idle"
    /\ _cache = <<>> /\ now = 0
    /\ circuit_breaker_open = FALSE /\ circuit_breaker_failures = 0
    /\ openai_client \in BOOLEAN /\ openrouter_key \in BOOLEAN
    /\ calls = <<>>
    /\ fn = "" /\ outcome = "" /\ result = <<>>
    /\ IdleOverlap /\ IdleMerge /\ IdleFilter /\ IdleImage /\ IdleHandler
    /\ IdleNms /\ IdleClamp /\ IdleLocation /\ IdleDecode /\ IdleAnnotate
    /\ IdleReport /\ IdleGrid /\ IdleRoof /\ IdleYolo

\* the seconds a call may take: none to speak of, or a request that runs
\* into the timeout
CallSeconds == {0, openai_timeout}

\* one call of detect_content: the cache is read at time now and written,
\* after the requests, at time now + seconds
DetectContent ==
    /\ pc = "client_idle"
    /\ circuit_breaker_failures < MaxFailures
    /\ \E image_bytes \in Images, prompt \in Prompts,
          r1 \in OpenAIReplies, r2 \in OpenRouterReplies, seconds \in CallSeconds :
          LET r == detect_content(image_bytes, prompt, r1, r2, now + seconds)
              requested == \E i \in 1..Len(r.events) :
                               r.events[i].to \in {"openai", "openrouter"}
          IN  /\ seconds > 0 =>
                     (requested /\ (now % (_cache_ttl \div 2)) + seconds <= MaxCallSeconds)
              /\ result' = [value |-> r.value, provider |-> r.provider]
              /\ _cache' = r.cache
              /\ circuit_breaker_open' = r.open
              /\ circuit_breaker_failures' = r.failures
              /\ calls' = r.events
              /\ fn' = <<image_bytes, prompt>>
              /\ now' = now + seconds
    /\ outcome' = "returned"
    /\ pc' = "client_returned"
    /\ UNCHANGED <<openai_client, openrouter_key, reportVars, grid_size, contours, yoloVars,
                   nmsVars, clampVars, locationVars, decodable, annotateVars,
                   overlapVars, mergeVars, filterVars, imageVars, handlerVars>>

\* cache.clear_cache, lines 66-68
ClearCache ==
    /\ pc = "client_idle"
    /\ _cache' = <<>>
    /\ UNCHANGED <<pc, now, circuit_breaker_open, circuit_breaker_failures,
                   openai_client, openrouter_key, calls, callVars, reportVars,
                   grid_size, contours, yoloVars,
                   nmsVars, clampVars, locationVars, decodable, annotateVars,
                   overlapVars, mergeVars, filterVars, imageVars, handlerVars>>

\* AIClient.__init__, lines 28-47, in a process whose cache module is already
\* loaded (a handler builds its client on every invocation): the breaker
\* closed, no failure counted, the keys as configured now, _cache as it is
NewClient ==
    /\ pc = "client_idle"
    /\ circuit_breaker_open' = FALSE /\ circuit_breaker_failures' = 0
    /\ openai_client' \in BOOLEAN /\ openrouter_key' \in BOOLEAN
    /\ UNCHANGED <<pc, _cache, now, calls, callVars, reportVars,
                   grid_size, contours, yoloVars,
                   nmsVars, clampVars, locationVars, decodable, annotateVars,
                   overlapVars, mergeVars, filterVars, imageVars, handlerVars>>

\* the caller takes the returned pair; the client is ready for the next call
ClientResume ==
    /\ pc = "client_returned"
    /\ pc' = "client_idle"
    /\ fn' = "" /\ outcome' = "" /\ result' = <<>> /\ calls' = <<>>
    /\ UNCHANGED <<_cache, now, circuit_breaker_open, circuit_breaker_failures,
                   openai_client, openrouter_key, reportVars, grid_size, contours, yoloVars,
                   nmsVars, clampVars, locationVars, decodable, annotateVars,
                   overlapVars, mergeVars, filterVars, imageVars, handlerVars>>

\* time passes between calls
Tick ==
    /\ pc = "client_idle"
    /\ now < MaxTicks * (_cache_ttl \div 2)
    /\ now' = now + (_cache_ttl \div 2)
    /\ UNCHANGED <<pc, _cache, circuit_breaker_open, circuit_breaker_failures,
                   openai_client, openrouter_key, calls, callVars, reportVars,
                   grid_size, contours, yoloVars,
                   nmsVars, clampVars, locationVars, decodable, annotateVars,
                   overlapVars, mergeVars, filterVars, imageVars, handlerVars>>

NextClient == DetectContent \/ ClientResume \/ Tick \/ ClearCache \/ NewClient

SpecClient == InitClient /\ [][NextClient]_vars

\* the cache holds an unexpired entry for (image_bytes, prompt)
Cached(image_bytes, prompt) ==
    /\ CacheHas(_cache, get_cache_key(image_bytes, prompt))
    /\ now - CacheGet(_cache, get_cache_key(image_bytes, prompt)).timestamp < _cache_ttl

\* this step is a call detect_content(image_bytes, prompt)
Calls(image_bytes, prompt) ==
    pc = "client_idle" /\ pc' = "client_returned" /\ fn' = <<image_bytes, prompt>>

\* the events of a call that are requests to the named provider
RequestsTo(events, provider) == SelectSeq(events, LAMBDA e : e.to = provider)

\* C24: a call for which the cache holds a non-empty, unexpired response
\* returns that response with provider "cache", calls neither OpenAI nor
\* OpenRouter, and leaves the cache as it was
C24_CacheHit ==
    [][\A image_bytes \in Images, prompt \in Prompts :
          (/\ Calls(image_bytes, prompt)
           /\ Cached(image_bytes, prompt)
           /\ CacheGet(_cache, get_cache_key(image_bytes, prompt)).response.fields # {})
          => /\ result' = [value |-> CacheGet(_cache, get_cache_key(image_bytes, prompt)).response,
                           provider |-> "cache"]
             /\ calls' = <<>>
             /\ _cache' = _cache]_vars

\* a call has been answered from the cache, some time after the entry was written
C24_Witness ==
    /\ pc = "client_returned"
    /\ result.provider = "cache" /\ result.value = ResultA
    /\ now > CacheGet(_cache, get_cache_key(fn[1], fn[2])).timestamp
    /\ calls = <<>>

\* C25 as stated: with the breaker open, a call that misses the cache makes no
\* request to OpenAI, asks OpenRouter first, and whatever result OpenRouter
\* returns is returned with provider "openrouter"
C25_BreakerOpen_Original ==
    [][\A image_bytes \in Images, prompt \in Prompts :
          (/\ Calls(image_bytes, prompt)
           /\ circuit_breaker_open
           /\ ~Cached(image_bytes, prompt))
          => /\ RequestsTo(calls', "openai") = <<>>
             /\ openrouter_key => (calls' # <<>> /\ calls'[1].to = "openrouter")
             /\ \A i \in 1..Len(calls') :
                    (calls'[i].to = "openrouter" /\ calls'[i].reply.kind = "result")
                    => result' = [value |-> calls'[i].reply.value,
                                  provider |-> "openrouter"]]_vars

\* C25, amended: with the breaker open, a call that misses the cache makes no
\* request to OpenAI, asks OpenRouter first, and a non-empty result from
\* OpenRouter is returned with provider "openrouter"
C25_BreakerOpen ==
    [][\A image_bytes \in Images, prompt \in Prompts :
          (/\ Calls(image_bytes, prompt)
           /\ circuit_breaker_open
           /\ ~Cached(image_bytes, prompt))
          => /\ RequestsTo(calls', "openai") = <<>>
             /\ openrouter_key => (calls' # <<>> /\ calls'[1].to = "openrouter")
             /\ \A i \in 1..Len(calls') :
                    (/\ calls'[i].to = "openrouter"
                     /\ calls'[i].reply.kind = "result"
                     /\ Truthy(calls'[i].reply.value))
                    => result' = [value |-> calls'[i].reply.value,
                                  provider |-> "openrouter"]]_vars

\* with the breaker open a call went straight to OpenRouter and returned its result
C25_Witness ==
    /\ pc = "client_returned"
    /\ circuit_breaker_open
    /\ calls # <<>> /\ calls[1].to = "openrouter"
    /\ result = [value |-> ResultB, provider |-> "openrouter"]

\* C30: whenever circuit_breaker_failures has reached the threshold of 3 the
\* breaker is open, whatever kind of failure was counted
C30_BreakerOpenAtThreshold ==
    circuit_breaker_failures >= circuit_breaker_threshold => circuit_breaker_open

\* the part of C30 that does hold: the breaker is never open below the threshold
C30_OpenOnlyAtThreshold ==
    circuit_breaker_open => circuit_breaker_failures >= circuit_breaker_threshold

----------------------------------------------------------------------------
(* single_agent.run_yolo_inference, lines 341-388: corner conversion, letterbox
   undone, _nms, _clip_box, the location filter.  Float coordinates are counted in halves. *)

\* most predictions that pass the confidence threshold
MaxPredictions == 2

\* conf_threshold: float = 0.3
conf_threshold == 300

\* a prediction <<cx, cy, w, h>> of the model, in pixels of the letterboxed input
PredIn == <<2, 2, 2, 2>>
\* nearly the same region as PredIn
PredIn2 == <<2, 2, 2, 3>>
\* two boxes that reach over the right edge of a 4-pixel-wide input
PredEdgeA == <<4, 2, 4, 2>>
PredEdgeB == <<6, 2, 6, 2>>
\* a box beyond the right edge
PredOut == <<9, 2, 2, 2>>
Predictions == {PredIn, PredIn2, PredEdgeA, PredEdgeB, PredOut}

\* the image and what _letterbox returns for it with a model input of side 4:
\* a 4x4 image is not scaled; an 8x4 image is scaled by 0.5 and padded by one
\* row above and below; a 64x64 image is scaled by 1/16
YoloImages ==
    {[w |-> 4, h |-> 4, ratio |-> <<1, 1>>, dwdh |-> <<0, 0>>],
     [w |-> 8, h |-> 4, ratio |-> <<1, 2>>, dwdh |-> <<0, 1>>],
     [w |-> 64, h |-> 64, ratio |-> <<1, 16>>, dwdh |-> <<0, 0>>]}

\* lines 295-297: roof_mask is None without filter_by_roof, else what
\* detect_roof_boundary returns for the image
YoloRoofMasks(flag, h, w) ==
    IF flag THEN {fallback_mask(h, w)} \cup DrawnMasks(h, w) ELSE {<<>>}

\* lines 341-352 for one prediction: corners, then (v - dwdh) / ratio, in halves
boxes_xyxy(p, r, d) ==
    LET x1 == 2 * p[1] - p[3]
        y1 == 2 * p[2] - p[4]
        x2 == 2 * p[1] + p[3]
        y2 == 2 * p[2] + p[4]
    IN  <<((x1 - 2 * d[1]) * r[2]) \div r[1],
          ((y1 - 2 * d[2]) * r[2]) \div r[1],
          ((x2 - 2 * d[1]) * r[2]) \div r[1],
          ((y2 - 2 * d[2]) * r[2]) \div r[1]>>

\* lines 361-373: the candidate reported for kept index idx
Detection(bs, sc, idx, w, h) ==
    [bbox |-> _clip_box(bs[idx], w, h), confidence |-> sc[idx],
     damage_type |-> "roof_damage", source |-> "yolo", model_class_id |-> 0]

InitYolo ==
    /\ pc = "yolo_convert"
    /\ fn = "run_yolo_inference" /\ outcome = "" /\ result = <<>>
    /\ \E n \in 1..MaxPredictions :
          /\ boxes \in [1..n -> Predictions]
          /\ scores \in [1..n -> {s \in NmsScores : s >= conf_threshold}]
    /\ \E im \in YoloImages :
          /\ clamp_width = im.w /\ clamp_height = im.h
          /\ ratio = im.ratio /\ dwdh = im.dwdh
    /\ filter_by_roof \in BOOLEAN
    /\ roof_mask \in YoloRoofMasks(filter_by_roof, clamp_height, clamp_width)
    /\ nms_iou_threshold = <<45, 100>>
    /\ idxs = <<>> /\ keep = <<>>
    /\ box = <<>>
    /\ detections = <<>> /\ img_width = 0 /\ img_height = 0
    /\ IdleOverlap /\ IdleMerge /\ IdleFilter /\ IdleImage /\ IdleHandler
    /\ IdleDecode /\ IdleAnnotate
    /\ IdleReport /\ IdleGrid /\ IdleRoof /\ IdleClient

\* lines 341-352: every prediction to corners in image coordinates
YoloConvert ==
    /\ pc = "yolo_convert"
    /\ boxes' = [k \in 1..Len(boxes) |-> boxes_xyxy(boxes[k], ratio, dwdh)]
    /\ pc' = "nms_sort"
    /\ UNCHANGED <<callVars, scores, nms_iou_threshold, idxs, keep, clampVars, locationVars,
                   decodable, annotateVars, overlapVars, mergeVars, filterVars, imageVars,
                   handlerVars, serviceVars>>

\* lines 361-374: _clip_box on every kept box, in the order _nms kept them
YoloClip ==
    /\ pc = "nms_done" /\ fn = "run_yolo_inference"
    /\ detections' = [k \in 1..Len(keep) |->
                         Detection(boxes, scores, keep[k], clamp_width, clamp_height)]
    /\ pc' = "yolo_filter"
    /\ UNCHANGED <<callVars, nmsVars, clampVars, img_width, img_height, roof_mask,
                   decodable, annotateVars, overlapVars, mergeVars, filterVars, imageVars,
                   handlerVars, serviceVars>>

\* lines 376-388: with filter_by_roof the candidates go through
\* filter_detections_by_location (margins 0.12 and 0.03, overlap 0.3, the
\* function's defaults); the list is returned
YoloFilter ==
    /\ pc = "yolo_filter"
    /\ LET r == filter_detections_by_location(detections, clamp_width, clamp_height,
                                              roof_mask)
       IN  /\ detections' = IF filter_by_roof THEN r.result ELSE detections
           /\ outcome' = IF filter_by_roof THEN r.outcome ELSE "returned"
    /\ result' = detections'
    /\ pc' = "yolo_done"
    /\ UNCHANGED <<fn, nmsVars, clampVars, img_width, img_height, roof_mask,
                   decodable, annotateVars, overlapVars, mergeVars, filterVars, imageVars,
                   handlerVars, serviceVars>>

\* line 354 is _nms itself: NmsSort and NmsLoop
NextYolo == YoloConvert \/ NmsSort \/ NmsLoop \/ YoloClip \/ YoloFilter

SpecYolo == InitYolo /\ [][NextYolo]_vars

\* C26: no two candidates the decoder reports have bboxes whose IoU exceeds
\* the IoU threshold (suppression acts on the clamped boxes)
C26_ReportedBoxesSuppressed ==
    pc = "yolo_done" =>
        \A a, b \in 1..Len(detections) : a # b =>
            ~RatGT(calculate_overlap(detections[a]["bbox"], detections[b]["bbox"]),
                   nms_iou_threshold)

\* the part of C26 that does hold: no two kept boxes, as _nms saw them before
\* clamping, have IoU above the threshold
C26_UnclampedBoxesSuppressed ==
    pc = "yolo_done" =>
        \A a, b \in 1..Len(keep) : a # b =>
            ~RatGT(NmsIoU(boxes[keep[a]], boxes[keep[b]]), nms_iou_threshold)

----------------------------------------------------------------------------
(* Overlay handler, phases 2-4: what is reported and stored *)

\* C27: in the result of the overlay pass the values of damage_counts sum to
\* the number of detections reported with them, len(overlap_areas), which is
\* total_damage_areas
C27_CountsMatchReported ==
    (pc = "h_done" /\ outcome = "returned") =>
        /\ SumValues(result.damage_counts) = Len(result.overlap_areas)
        /\ SumValues(result.damage_counts) = result.damage_summary.total_damage_areas

\* the part of C27 that does hold: total_damage_areas is len(overlap_areas)
C27_TotalIsLength ==
    (pc = "h_done" /\ outcome = "returned") =>
        result.damage_summary.total_damage_areas = Len(result.overlap_areas)

\* C28: the status 'completed' is stored only if both the overlay image and
\* the damage report were uploaded
C28_CompletedOnlyIfBothUploaded ==
    workflow_status = "completed" => (overlay_uploaded /\ report_uploaded)

\* the part of C28 that does hold: without the overlay upload the photo is not
\* marked completed
C28_OverlayRequired ==
    workflow_status = "completed" => overlay_uploaded

----------------------------------------------------------------------------
(* merge_damage_areas: what a merge leaves side by side *)

\* no two candidates of the list s, both with a 4-element bbox, have an IoU of
\* at least t
NoPairOverlapping(s, t) ==
    \A i \in 1..Len(s) : \A j \in 1..Len(s) :
        (i < j /\ HasBBox(s[i]) /\ HasBBox(s[j])) =>
            ~RatGE(calculate_overlap(s[i]["bbox"], s[j]["bbox"]), t)

\* C29: at a positive threshold, if no two candidates of primary overlap with
\* IoU >= iou_threshold then no two regions of the merged list do
C29_MergeLeavesNoOverlap ==
    (/\ pc = "merge_done"
     /\ RatGT(iou_threshold, Zero)
     /\ NoPairOverlapping(primary, iou_threshold))
    => NoPairOverlapping(merged, iou_threshold)

\* the part of C29 that does hold: a candidate that is appended overlaps none
\* of the regions present at that moment with IoU >= iou_threshold
C29_AppendedIsApart ==
    [][(pc = "merge_loop" /\ Len(merged') = Len(merged) + 1 /\ HasBBox(secondary[mi])
        /\ RatGT(iou_threshold, Zero))
       => \A k \in 1..Len(merged) :
              HasBBox(merged[k]) =>
                  ~RatGE(calculate_overlap(merged[k]["bbox"], secondary[mi]["bbox"]),
                         iou_threshold)]_vars

====
